---- MODULE Spec2Model ----
(***************************************************************************)
(* Fossil Journey Tracker: the reconstruction-and-cache subsystem.         *)
(*                                                                         *)
(*  SpecCache    the persistent cache directory shared by the proxy        *)
(*               (simulator.py), simulator --download, the bulk            *)
(*               downloaders and test_sync, with the proxy's memory tier.  *)
(*  SpecKey      derivation of the request URL / cache key by each         *)
(*               component that builds one.                                *)
(*  SpecJourney  generateFullTrajectoryAsync followed by                   *)
(*               filterInvalidTrajectoryPoints (JavaScript front end).     *)
(*                                                                         *)
(* Coordinates and ages of a query are kept in tenths (-510 is -51.0).     *)
(***************************************************************************)
EXTENDS Integers, Sequences, FiniteSets, TLC

VARIABLES
    workers,    \* SpecCache: per process/thread: position, url, body received, text to write
    disk,       \* SpecCache: cache directory, url (its md5 file) -> file content
    mem,        \* SpecCache: GPLATES_MEMORY_CACHE of the proxy process
    reply,      \* SpecCache: the last HTTP reply sent by GPlatesProxyHandler
    served,     \* SpecCache (history): body of the first 200 reply for a url
    kq,         \* SpecKey: the query whose URL is being built
    kurl,       \* SpecKey: component -> cache key it derived for kq
    jpc,        \* SpecJourney: position of the startJourney promise chain
    jin,        \* SpecJourney: lat, lon, maxAge handed to generateFullTrajectoryAsync
    anchor,     \* SpecJourney: result of findAnchorPoint
    results,    \* SpecJourney: outcome of each promise of the batch, in promise order
    trajectoryPoints, \* SpecJourney: the shared trajectory array
    queries,    \* SpecJourney: age and point of the url of each promise of the batch
    gpc,        \* SpecGeom: "split" / "pip" input chosen, then which functions have run
    ring,       \* SpecGeom: the ring (sequence of [lon, lat]) handed to the function
    gpoint,     \* SpecGeom: the test point [lon, lat]
    segments,   \* SpecGeom: what splitAtDateLine returned
    inside,     \* SpecGeom: what point_in_polygon (py) and isPointInPolygon (js) returned
    apc,        \* SpecAnchor: position in findAnchorPoint / its caller
    ain,        \* SpecAnchor: lat, lon handed to findAnchorPoint
    aradius,    \* SpecAnchor: index into searchDistances of the radius being probed
    aprobes,    \* SpecAnchor: the 8 promises of the radius: pending, null or a result
    best,       \* SpecAnchor: bestAnchor (bestMovement is its movement, 0 when null)
    aseen,      \* SpecAnchor (history): successful probes of the radii evaluated so far
    aret,       \* SpecAnchor: what findAnchorPoint returned
    arecon,     \* SpecAnchor: coordinates and offset generateFullTrajectoryAsync goes on with
    bpc,        \* SpecBulk: position of main() of download_gplates_full.py
    bcached,    \* SpecBulk: urls whose cache file exists
    bqueue,     \* SpecBulk: submitted calls no worker thread has taken yet
    bthreads,   \* SpecBulk: worker thread -> position in download_and_cache, url
    bfetches,   \* SpecBulk (history): url -> origin fetches made in this run
    bintr,      \* SpecBulk: KeyboardInterrupt was raised in main during the download
    bcompleted, \* SpecBulk: finished futures as_completed has not yielded yet, oldest first
    bdownloaded, \* SpecBulk: main's counter `downloaded`
    bfailed,    \* SpecBulk: main's counter `failed`
    bwritten,   \* SpecBulk (history): urls whose cache file this run wrote
    bexit,      \* SpecBulk: exit status of the process
    bexits,     \* SpecBulk (history): outcome -> exit statuses runs with that outcome ended with
    bcount,     \* SpecBulk: main's counter `cached`, set by the scan of the cache
    ppc,        \* SpecPools: "stopped" / "listening": the proxy's HTTPServer
    fanout,     \* SpecPools: requests the front end has sent and not yet seen answered
    pserving,   \* SpecPools: the request the server thread is handling, its position
    porigin,    \* SpecPools: origin requests of the proxy process in flight
    fin,        \* SpecPolar / SpecSteps / SpecOffline: the function applied and its arguments
    fout,       \* SpecPolar / SpecSteps / SpecOffline / SpecAny: what it returned
    builds,     \* SpecSession: per startJourney call: position in its promise chain, specimen, results
    isPlaying,  \* SpecSession: the global isPlaying
    journeyData, \* SpecSession: the global journeyData (the specimen, or null)
    overlap,    \* SpecSession (history): the last call made while a build was in flight
    isPaused,   \* SpecCoast: the global isPaused
    currentProgress, \* SpecCoast: the global currentProgress, in steps of 1 / ProgressScale
    currentAge, \* SpecCoast: the global currentAge, in steps of 1 / ProgressScale Ma
    currentView, \* SpecCoast: the global currentView, "3d" or "2d"
    currentCoastlines, \* SpecCoast: the global currentCoastlines: null or the set of an age
    lastCoastlinesAge2D, \* SpecCoast: the global lastCoastlinesAge2D
    lastContinentAge, \* SpecCoast: the global lastContinentAge
    isUpdatingCoastlines3D, \* SpecCoast: the global isUpdatingCoastlines3D
    coastlinesCache, \* SpecCoast: ages that have an entry in coastlinesCache
    cfetches,   \* SpecCoast: calls of fetchCoastlines that have not returned yet
    continentsGroup \* SpecCoast: the coastlines drawn in the 3D scene

cacheVars == <<workers, disk, mem, reply, served>>
keyVars == <<kq, kurl>>
journeyVars == <<jpc, jin, anchor, results, trajectoryPoints, queries>>
geomVars == <<gpc, ring, gpoint, segments, inside>>
anchorVars == <<apc, ain, aradius, aprobes, best, aseen, aret, arecon>>
bulkVars == <<bpc, bcached, bqueue, bthreads, bfetches, bintr, bcompleted,
              bdownloaded, bfailed, bwritten, bexit, bexits, bcount>>
poolVars == <<ppc, fanout, pserving, porigin>>
fnVars == <<fin, fout>>
animVars == <<isPaused, currentProgress, currentAge, currentView>>
coastVars == <<currentCoastlines, lastCoastlinesAge2D, lastContinentAge,
               isUpdatingCoastlines3D, cfetches>>
frontVars == <<builds, isPlaying, journeyData, overlap, animVars, coastVars,
               coastlinesCache, continentsGroup>>
nonCacheVars == <<keyVars, journeyVars, geomVars, anchorVars, bulkVars, poolVars, fnVars, frontVars>>
nonKeyVars == <<cacheVars, journeyVars, geomVars, anchorVars, bulkVars, poolVars, fnVars, frontVars>>
nonJourneyVars == <<cacheVars, keyVars, geomVars, anchorVars, bulkVars, poolVars, fnVars, frontVars>>
nonGeomVars == <<cacheVars, keyVars, journeyVars, anchorVars, bulkVars, poolVars, fnVars, frontVars>>
nonAnchorVars == <<cacheVars, keyVars, journeyVars, geomVars, bulkVars, poolVars, fnVars, frontVars>>
nonBulkVars == <<cacheVars, keyVars, journeyVars, geomVars, anchorVars, poolVars, fnVars, frontVars>>
nonPoolVars == <<cacheVars, keyVars, journeyVars, geomVars, anchorVars, bulkVars, fnVars, frontVars>>
nonFnVars == <<cacheVars, keyVars, journeyVars, geomVars, anchorVars, bulkVars, poolVars, frontVars>>
vars == <<workers, disk, mem, reply, served, kq, kurl,
          jpc, jin, anchor, results, trajectoryPoints, queries,
          gpc, ring, gpoint, segments, inside,
          apc, ain, aradius, aprobes, best, aseen, aret, arecon,
          bpc, bcached, bqueue, bthreads, bfetches, bintr, bcompleted,
          bdownloaded, bfailed, bwritten, bexit, bexits, bcount,
          ppc, fanout, pserving, porigin, fin, fout,
          builds, isPlaying, journeyData, overlap,
          isPaused, currentProgress, currentAge, currentView,
          currentCoastlines, lastCoastlinesAge2D, lastContinentAge,
          isUpdatingCoastlines3D, coastlinesCache, cfetches, continentsGroup>>

Abs(x) == IF x < 0 THEN 0 - x ELSE x
Sign(x) == IF x < 0 THEN "-" ELSE ""

(***************************************************************************)
(* Number formatting.  A value is an integer count of tenths; the text of  *)
(* a number is <<sign, integer digits>> or <<sign, integer digits,         *)
(* fraction digit>>, so two texts are equal iff the strings are.           *)
(***************************************************************************)
\* Python f"{x}" of an int (x whole units, given in tenths)
PyIntStr(v) == <<Sign(v), Abs(v) \div 10>>

\* Python f"{x}" of a float: repr always shows a fraction ("-51.0", "-43.2")
PyFloatStr(v) == <<Sign(v), Abs(v) \div 10, Abs(v) % 10>>

\* JavaScript `${x}` of a number: no fraction for an integral value ("-51")
JsNumStr(v) ==
    IF v % 10 = 0 THEN <<Sign(v), Abs(v) \div 10>>
    ELSE <<Sign(v), Abs(v) \div 10, Abs(v) % 10>>

GPLATES_BASE_URL == "https://gws.gplates.org"
LOCAL_PROXY == "http://127.0.0.1:8089"

PointsUrl(host, lonText, latText, timeText, model) ==
    [host |-> host, path |-> "/reconstruct/reconstruct_points/",
     points |-> <<lonText, latText>>, time |-> timeText, model |-> model]

CoastlinesUrl(host, timeText, model) ==
    [host |-> host, path |-> "/reconstruct/coastlines/",
     points |-> <<>>, time |-> timeText, model |-> model]

\* do_GET: gplates_url = GPLATES_BASE_URL + parsed.path + "?" + parsed.query
ProxyUrl(req) == [req EXCEPT !.host = GPLATES_BASE_URL]

\* get_cache_path: CACHE_DIR / md5(url).json (md5 taken as collision free)
get_cache_path(url) == <<"gplates_cache", "md5", url, ".json">>

(***************************************************************************)
(* SpecCache: file contents and payloads.                                  *)
(***************************************************************************)
NoUrl == [host |-> "", path |-> "", points |-> <<>>, time |-> <<>>, model |-> ""]

Absent == [form |-> "absent", doc |-> NoUrl]    \* no file / None
Empty == [form |-> "empty", doc |-> NoUrl]      \* a file of zero bytes
Bad == [form |-> "malformed", doc |-> NoUrl]    \* bytes that are not JSON
Raw(u) == [form |-> "raw", doc |-> u]           \* JSON text as the origin sent it
Canon(d) == [form |-> "canon", doc |-> d]       \* JSON text as json.dumps writes it

\* json.loads succeeds on the payload
IsJson(p) == p.form \in {"raw", "canon"}

\* json.dumps(json.loads(p)), for a payload that parses
JsonDumpsLoads(p) == Canon(p.doc)

\* Python truthiness of the str | None that load_from_disk_cache returns
Truthy(p) == p.form \notin {"absent", "empty"}

\* a whole payload, as opposed to no file or a file opened and not yet written
Complete(p) == p.form \in {"raw", "canon", "malformed"}

\* The requests of the cache model: coastlines at 50 Ma and one point at 50 Ma
CoastUrl == CoastlinesUrl(GPLATES_BASE_URL, PyIntStr(500), "MULLER2022")
PointUrl == PointsUrl(GPLATES_BASE_URL, JsNumStr(-432), JsNumStr(-229),
                      JsNumStr(500), "MULLER2022")
Urls == {CoastUrl, PointUrl}

\* The origin's well-formed answer for a url (a function of the query)
OriginBody(u) == Raw(u)

Workers == {"proxy", "bulk", "simdl", "test"}
Kind(w) == w

\* urls each writer asks for: download_all_gplates_data only builds coastlines
UrlsOf(k) == IF k = "simdl" THEN {CoastUrl} ELSE Urls

IdleWorker == [pc |-> "idle", url |-> NoUrl, body |-> Absent, data |-> Absent]
NoReply == [url |-> NoUrl, status |-> 0, body |-> Absent, tier |-> "none"]

\* load_from_disk_cache with the disk tier skipped
LoadNothing(dsk, u) == Absent

\* load_from_disk_cache: the text of the file, None when there is no file
\* (reading an existing cache file is taken to succeed)
load_from_disk_cache(dsk, u) ==
    LET cache_path == get_cache_path(u) IN
    IF dsk[cache_path] # Absent THEN dsk[cache_path] ELSE Absent

\* the memory tier never consulted
MemoryHitNever(m, u) == FALSE

\* `gplates_url in GPLATES_MEMORY_CACHE`
MemoryHit(m, u) == m[u] # Absent

\* cache_path.exists()
Exists(dsk, u) == dsk[get_cache_path(u)] # Absent

\* What each writer does with the response body before writing; Absent when
\* its json.loads raises and nothing is written.
PayloadToWrite(k, body) ==
    CASE k = "proxy" -> body                 \* simulator.py:110-113, no validation
      [] k = "simdl" -> body                 \* simulator.py:230-232, no validation
      [] k = "bulk" -> IF IsJson(body) THEN body ELSE Absent
      [] k = "test" -> IF IsJson(body) THEN JsonDumpsLoads(body) ELSE Absent

Finish(w) == [workers EXCEPT ![w] = IdleWorker]

RecordServed(u, body) ==
    served' = [served EXCEPT ![u] = IF @ = Absent THEN body ELSE @]

(***************************************************************************)
(* GPlatesProxyHandler.do_GET up to the origin call                        *)
(***************************************************************************)
ProxyGet(req) ==
    LET u == ProxyUrl(req) IN
    /\ workers["proxy"].pc = "idle"
    /\ IF MemoryHit(mem, u)
       THEN /\ reply' = [url |-> u, status |-> 200, body |-> mem[u], tier |-> "memory"]
            /\ RecordServed(u, mem[u])
            /\ UNCHANGED <<workers, mem>>
       ELSE LET disk_data == load_from_disk_cache(disk, u) IN
            IF Truthy(disk_data)
            THEN /\ mem' = [mem EXCEPT ![u] = disk_data]
                 /\ reply' = [url |-> u, status |-> 200, body |-> disk_data, tier |-> "disk"]
                 /\ RecordServed(u, disk_data)
                 /\ UNCHANGED workers
            ELSE /\ workers' = [workers EXCEPT !["proxy"] =
                        [pc |-> "fetching", url |-> u, body |-> Absent, data |-> Absent]]
                 /\ UNCHANGED <<mem, reply, served>>
    /\ UNCHANGED <<disk, nonCacheVars>>

(***************************************************************************)
(* The cache probe that opens download_and_cache, fetch_url and one        *)
(* iteration of download_all_gplates_data                                  *)
(***************************************************************************)
CacheProbe(k, dsk, u) ==
    CASE k = "bulk" -> IF Exists(dsk, u) THEN "cached" ELSE "miss"
      [] k = "simdl" -> IF Truthy(load_from_disk_cache(dsk, u))
                        THEN "cached" ELSE "miss"
      [] k = "test" -> IF Exists(dsk, u)
                       THEN (IF IsJson(dsk[get_cache_path(u)]) THEN "cached" ELSE "failed")
                       ELSE "miss"

StartCall(w, u) ==
    /\ Kind(w) # "proxy"
    /\ u \in UrlsOf(Kind(w))
    /\ workers[w].pc = "idle"
    /\ workers' = [workers EXCEPT ![w] =
             IF CacheProbe(Kind(w), disk, u) = "miss"
             THEN [pc |-> "fetching", url |-> u, body |-> Absent, data |-> Absent]
             ELSE IdleWorker]
    /\ UNCHANGED <<disk, mem, reply, served, nonCacheVars>>

(***************************************************************************)
(* urllib.request.urlopen(...).read(): the origin's answer                 *)
(***************************************************************************)
\* a failed origin call remembered in the memory tier
FetchFailsCached(w) ==
    /\ workers[w].pc = "fetching"
    /\ workers' = Finish(w)
    /\ reply' = IF Kind(w) = "proxy"
                THEN [url |-> workers[w].url, status |-> 404, body |-> Absent, tier |-> "none"]
                ELSE reply
    /\ mem' = IF Kind(w) = "proxy" THEN [mem EXCEPT ![workers[w].url] = Empty] ELSE mem
    /\ UNCHANGED <<disk, served, nonCacheVars>>

FetchFails(w) ==
    /\ workers[w].pc = "fetching"
    /\ workers' = Finish(w)
    /\ reply' = IF Kind(w) = "proxy"
                THEN [url |-> workers[w].url, status |-> 404, body |-> Absent, tier |-> "none"]
                ELSE reply
    /\ UNCHANGED <<disk, mem, served, nonCacheVars>>

FetchReturns(w, body) ==
    /\ workers[w].pc = "fetching"
    /\ body \in {OriginBody(workers[w].url), Bad}
    /\ LET data == PayloadToWrite(Kind(w), body) IN
       workers' = IF data = Absent
                  THEN Finish(w)
                  ELSE [workers EXCEPT ![w].pc = "saving", ![w].body = body,
                                       ![w].data = data]
    /\ UNCHANGED <<disk, mem, reply, served, nonCacheVars>>

(***************************************************************************)
(* Path.write_text: open(mode='w') creates or truncates the file, then the *)
(* text is written.  What follows the write depends on the writer.         *)
(***************************************************************************)
AfterWrite(w) ==
    LET u == workers[w].url
        data == workers[w].data IN
    IF Kind(w) = "proxy"
    THEN /\ mem' = [mem EXCEPT ![u] = data]
         /\ reply' = [url |-> u, status |-> 200, body |-> data, tier |-> "origin"]
         /\ RecordServed(u, data)
         /\ workers' = Finish(w)
    ELSE /\ workers' = Finish(w)
         /\ UNCHANGED <<mem, reply, served>>

OpenForWrite(w) ==
    /\ workers[w].pc = "saving"
    /\ disk' = [disk EXCEPT ![get_cache_path(workers[w].url)] = Empty]
    /\ workers' = [workers EXCEPT ![w].pc = "writing"]
    /\ UNCHANGED <<mem, reply, served, nonCacheVars>>

OpenFails(w) ==
    /\ workers[w].pc = "saving"
    /\ AfterWrite(w)
    /\ UNCHANGED <<disk, nonCacheVars>>

WriteText(w) ==
    /\ workers[w].pc = "writing"
    /\ disk' = [disk EXCEPT ![get_cache_path(workers[w].url)] = workers[w].data]
    /\ AfterWrite(w)
    /\ UNCHANGED <<nonCacheVars>>

WriteFails(w) ==
    /\ workers[w].pc = "writing"
    /\ AfterWrite(w)
    /\ UNCHANGED <<disk, nonCacheVars>>

CachePaths == {get_cache_path(u) : u \in Urls}

(***************************************************************************)
(* SpecKey: the request URL each component builds for a query, and the     *)
(* cache key (file) it maps to.  A query is an operation, a model, an age  *)
(* and a point, the numbers in tenths.                                     *)
(***************************************************************************)
Components == {"download_gplates_cache", "download_gplates_full", "test_sync",
               "simulator_download", "frontend"}

NoKey == <<>>
Integral(v) == v % 10 = 0

\* download_gplates_cache.generate_urls: ages from range() are ints, the
\* PRESET_COORDINATES are float literals
UrlCacheDownloader(q) ==
    IF q.op = "coastlines"
    THEN CoastlinesUrl(GPLATES_BASE_URL, PyIntStr(q.age), q.model)
    ELSE PointsUrl(GPLATES_BASE_URL, PyFloatStr(q.lon), PyFloatStr(q.lat),
                   PyIntStr(q.age), q.model)

\* download_gplates_full.generate_urls: ages and grid coordinates are ints
UrlFullDownloader(q) ==
    IF q.op = "coastlines"
    THEN CoastlinesUrl(GPLATES_BASE_URL, PyIntStr(q.age), q.model)
    ELSE PointsUrl(GPLATES_BASE_URL, PyIntStr(q.lon), PyIntStr(q.lat),
                   PyIntStr(q.age), q.model)

\* test_sync.reconstruct_point / get_coastlines: float point, int age
UrlTestSync(q) ==
    IF q.op = "coastlines"
    THEN CoastlinesUrl(GPLATES_BASE_URL, PyIntStr(q.age), q.model)
    ELSE PointsUrl(GPLATES_BASE_URL, PyFloatStr(q.lon), PyFloatStr(q.lat),
                   PyIntStr(q.age), q.model)

\* download_all_gplates_data: coastlines only, int age
UrlSimulatorDownload(q) == CoastlinesUrl(GPLATES_BASE_URL, PyIntStr(q.age), q.model)

\* the front end (fetchCoastlines, findAnchorPoint, generateFullTrajectoryAsync):
\* template literals over JavaScript numbers, sent to the local proxy, which
\* rebuilds the origin URL
UrlFrontend(q) ==
    ProxyUrl(IF q.op = "coastlines"
             THEN CoastlinesUrl(LOCAL_PROXY, JsNumStr(q.age), q.model)
             ELSE PointsUrl(LOCAL_PROXY, JsNumStr(q.lon), JsNumStr(q.lat),
                            JsNumStr(q.age), q.model))

UrlBy(c, q) ==
    CASE c = "download_gplates_cache" -> UrlCacheDownloader(q)
      [] c = "download_gplates_full" -> UrlFullDownloader(q)
      [] c = "test_sync" -> UrlTestSync(q)
      [] c = "simulator_download" -> UrlSimulatorDownload(q)
      [] c = "frontend" -> UrlFrontend(q)

\* the queries a component can issue, by the types of the numbers it holds
CanIssue(c, q) ==
    /\ Integral(q.age)
    /\ c = "simulator_download" => q.op = "coastlines"
    /\ (c = "download_gplates_full" /\ q.op = "points") =>
           (Integral(q.lat) /\ Integral(q.lon))

KeyAges == {0, 500, 1000}
KeyLats == {-290, -229, 0, 100}
KeyLons == {-510, -432, 0}
KeyQueries ==
    [op : {"coastlines"}, model : {"MULLER2022", "SETON2012"}, age : KeyAges,
     lat : {0}, lon : {0}]
    \cup [op : {"points"}, model : {"MULLER2022"}, age : KeyAges,
          lat : KeyLats, lon : KeyLons]

DeriveKey(c) ==
    /\ kurl[c] = NoKey
    /\ CanIssue(c, kq)
    /\ kurl' = [kurl EXCEPT ![c] = get_cache_path(UrlBy(c, kq))]
    /\ UNCHANGED <<kq, nonKeyVars>>

KeyIdle ==
    /\ kq = [op |-> "coastlines", model |-> "MULLER2022", age |-> 0, lat |-> 0, lon |-> 0]
    /\ kurl = [c \in Components |-> NoKey]

(***************************************************************************)
(* SpecJourney: startJourney's promise chain in the front end:             *)
(* generateFullTrajectoryAsync (with findAnchorPoint), then                *)
(* filterInvalidTrajectoryPoints.  Latitudes and longitudes in tenths of   *)
(* a degree, ages in Ma.                                                   *)
(***************************************************************************)
MaxAgeBound == 40        \* largest maxAge (specimen.fad_ma) explored

Min(a, b) == IF a < b THEN a ELSE b
Max(a, b) == IF a > b THEN a ELSE b

NoAnchor == [found |-> FALSE, anchorLat |-> 0, anchorLon |-> 0,
             offsetLat |-> 0, offsetLon |-> 0]
Pending == [age |-> -1, lat |-> 0, lon |-> 0, isEndPoint |-> FALSE]
Point(age, lat, lon) == [age |-> age, lat |-> lat, lon |-> lon, isEndPoint |-> FALSE]

\* the step with the first limit taken inclusive
StepForInclusive(maxAge) == IF maxAge <= 20 THEN 5 ELSE IF maxAge < 100 THEN 10 ELSE 20

\* step size chosen from maxAge
StepFor(maxAge) == IF maxAge < 20 THEN 5 ELSE IF maxAge < 100 THEN 10 ELSE 20

\* ages listed from 0, so that age 0 is queried as well
AgeListFromZero(step, maxAge) == [i \in 1..((maxAge \div step) + 1) |-> (i - 1) * step]

\* for (let age = step; age <= maxAge; age += step) ages.push(age)
AgeList(step, maxAge) == [i \in 1..(maxAge \div step) |-> i * step]

\* searchDistances (degrees) and searchAngles of findAnchorPoint
searchDistances == <<1, 2, 3, 5, 8, 10, 15, 20>>
searchAngles == <<0, 45, 90, 135, 180, 225, 270, 315>>

\* cos and sin of the search angles, in thousandths
CosMilli(angle) ==
    CASE angle = 0 -> 1000 [] angle = 45 -> 707 [] angle = 90 -> 0
      [] angle = 135 -> -707 [] angle = 180 -> -1000 [] angle = 225 -> -707
      [] angle = 270 -> 0 [] angle = 315 -> 707
SinMilli(angle) ==
    CASE angle = 0 -> 0 [] angle = 45 -> 707 [] angle = 90 -> 1000
      [] angle = 135 -> 707 [] angle = 180 -> 0 [] angle = 225 -> -707
      [] angle = 270 -> -1000 [] angle = 315 -> -707

\* thousandths of a tenth rounded to the nearest tenth
RoundMilli(x) == IF x >= 0 THEN (x + 500) \div 1000 ELSE 0 - ((500 - x) \div 1000)

\* testLat = max(-85, min(85, lat + dist*cos(rad))), testLon = lon + dist*sin(rad)
ProbePoint(lat, lon, dist, angle) ==
    [lat |-> Max(-850, Min(850, lat + RoundMilli(dist * 10 * CosMilli(angle)))),
     lon |-> lon + RoundMilli(dist * 10 * SinMilli(angle))]

\* the anchor returned for a probe: offset = original - anchor
AnchorAt(lat, lon, probe) ==
    [found |-> TRUE, anchorLat |-> probe.lat, anchorLon |-> probe.lon,
     offsetLat |-> lat - probe.lat, offsetLon |-> lon - probe.lon]

\* the radial probes (index of distance, index of angle) at which the origin
\* of this model can report plate motion
MovingProbes == {<<1, 1>>, <<4, 4>>, <<8, 1>>, <<8, 6>>}

\* What findAnchorPoint may return for (lat, lon): null, or the anchor of one
\* of its radial probes; which one depends on the origin's answers.
AnchorOutcomes(lat, lon) ==
    {NoAnchor} \cup
    {AnchorAt(lat, lon, ProbePoint(lat, lon, searchDistances[pr[1]], searchAngles[pr[2]])) :
        pr \in MovingProbes}

\* the query of the url of one promise: points=${reconLon},${reconLat}&time=${age}
\* with reconLat = anchor ? anchor.anchorLat : lat, and reconLon likewise
QueryFor(age, lat, lon, anc) ==
    [age |-> age, lat |-> IF anc.found THEN anc.anchorLat ELSE lat,
                  lon |-> IF anc.found THEN anc.anchorLon ELSE lon]

\* the reconstruction returned as it is, no offset applied
QueryResultUnanchored(age, lat, lon, anc, ok, recon) ==
    IF ok THEN Point(age, recon.lat, recon.lon) ELSE Point(age, lat, lon)

\* the point a resolved query contributes: the reconstruction (plus the
\* anchor's offset), or the input coordinates when the query failed
QueryResult(age, lat, lon, anc, ok, recon) ==
    IF ok
    THEN Point(age, recon.lat + (IF anc.found THEN anc.offsetLat ELSE 0),
                    recon.lon + (IF anc.found THEN anc.offsetLon ELSE 0))
    ELSE Point(age, lat, lon)

\* results.sort((a, b) => a.age - b.age): stable insertion by age
RECURSIVE InsertByAge(_, _)
InsertByAge(sorted, pt) ==
    IF sorted = <<>> THEN <<pt>>
    ELSE IF sorted[Len(sorted)].age <= pt.age THEN Append(sorted, pt)
    ELSE Append(InsertByAge(SubSeq(sorted, 1, Len(sorted) - 1), pt), sorted[Len(sorted)])

RECURSIVE SortByAge(_)
SortByAge(seq) ==
    IF seq = <<>> THEN <<>>
    ELSE InsertByAge(SortByAge(SubSeq(seq, 1, Len(seq) - 1)), seq[Len(seq)])

maxJumpPerMa == 3        \* degrees per Ma

OutOfRange(pt) == pt.lat < -900 \/ pt.lat > 900 \/ pt.lon < -1800 \/ pt.lon > 1800

\* the loop of filterInvalidTrajectoryPoints with lastValidPoint never advanced
RECURSIVE FilterLoopFixedLast(_, _, _, _)
FilterLoopFixedLast(pts, i, lastValidPoint, validPoints) ==
    IF i > Len(pts) THEN validPoints
    ELSE LET pt == pts[i] IN
         IF OutOfRange(pt)
         THEN FilterLoopFixedLast(pts, i + 1, lastValidPoint, validPoints)
         ELSE LET latDiff == Abs(pt.lat - lastValidPoint.lat)
                  lonDiff == Abs(pt.lon - lastValidPoint.lon)
                  ageDiff == pt.age - lastValidPoint.age
                  expectedMaxJump == maxJumpPerMa * 10 * ageDiff
                  marked == IF latDiff > expectedMaxJump \/ lonDiff > expectedMaxJump
                            THEN [pt EXCEPT !.isEndPoint = TRUE] ELSE pt
              IN FilterLoopFixedLast(pts, i + 1, lastValidPoint, Append(validPoints, marked))

\* the loop of filterInvalidTrajectoryPoints with the latitude tested alone
RECURSIVE FilterLoopLatOnly(_, _, _, _)
FilterLoopLatOnly(pts, i, lastValidPoint, validPoints) ==
    IF i > Len(pts) THEN validPoints
    ELSE LET pt == pts[i] IN
         IF OutOfRange(pt)
         THEN FilterLoopLatOnly(pts, i + 1, lastValidPoint, validPoints)
         ELSE LET latDiff == Abs(pt.lat - lastValidPoint.lat)
                  ageDiff == pt.age - lastValidPoint.age
                  expectedMaxJump == maxJumpPerMa * 10 * ageDiff
                  marked == IF latDiff > expectedMaxJump
                            THEN [pt EXCEPT !.isEndPoint = TRUE] ELSE pt
              IN FilterLoopLatOnly(pts, i + 1, marked, Append(validPoints, marked))

\* the loop of filterInvalidTrajectoryPoints with a point of a large jump
\* left out instead of flagged
RECURSIVE FilterLoopDropJump(_, _, _, _)
FilterLoopDropJump(pts, i, lastValidPoint, validPoints) ==
    IF i > Len(pts) THEN validPoints
    ELSE LET pt == pts[i] IN
         IF OutOfRange(pt)
         THEN FilterLoopDropJump(pts, i + 1, lastValidPoint, validPoints)
         ELSE LET latDiff == Abs(pt.lat - lastValidPoint.lat)
                  lonDiff == Abs(pt.lon - lastValidPoint.lon)
                  ageDiff == pt.age - lastValidPoint.age
                  expectedMaxJump == maxJumpPerMa * 10 * ageDiff
              IN IF latDiff > expectedMaxJump \/ lonDiff > expectedMaxJump
                 THEN FilterLoopDropJump(pts, i + 1, pt, validPoints)
                 ELSE FilterLoopDropJump(pts, i + 1, pt, Append(validPoints, pt))

\* the loop of filterInvalidTrajectoryPoints from index i (1-based here)
RECURSIVE FilterLoop(_, _, _, _)
FilterLoop(pts, i, lastValidPoint, validPoints) ==
    IF i > Len(pts) THEN validPoints
    ELSE LET pt == pts[i] IN
         IF OutOfRange(pt)
         THEN FilterLoop(pts, i + 1, lastValidPoint, validPoints)
         ELSE LET latDiff == Abs(pt.lat - lastValidPoint.lat)
                  lonDiff == Abs(pt.lon - lastValidPoint.lon)
                  ageDiff == pt.age - lastValidPoint.age
                  expectedMaxJump == maxJumpPerMa * 10 * ageDiff
                  marked == IF latDiff > expectedMaxJump \/ lonDiff > expectedMaxJump
                            THEN [pt EXCEPT !.isEndPoint = TRUE] ELSE pt
              IN FilterLoop(pts, i + 1, marked, Append(validPoints, marked))

\* the filter with the first point treated like every other point
FilterFromFirst(pts) ==
    IF Len(pts) < 2 THEN pts ELSE FilterLoop(pts, 1, pts[1], <<>>)

filterInvalidTrajectoryPoints(pts) ==
    IF Len(pts) < 2 THEN pts ELSE FilterLoop(pts, 2, pts[1], <<pts[1]>>)

\* inputs of a journey and reconstructions the origin may return
JourneyLats == {-229, 0, 950}
JourneyLons == {-432}
JourneyMaxAges == {a \in 0..MaxAgeBound : a % 5 = 0 \/ a % 10 = 9}
OriginPoints == {[lat |-> -229, lon |-> -432], [lat |-> -29, lon |-> -432],
                 [lat |-> -229, lon |-> 368], [lat |-> 950, lon |-> -432],
                 [lat |-> 21, lon |-> -182]}

\* startJourney -> generateFullTrajectoryAsync up to `await findAnchorPoint`
StartJourney(lat, lon, maxAge) ==
    /\ jpc = "idle"
    /\ jin' = [lat |-> lat, lon |-> lon, maxAge |-> maxAge]
    /\ trajectoryPoints' = <<>>
    /\ anchor' = NoAnchor
    /\ results' = <<>>
    /\ queries' = <<>>
    /\ jpc' = "anchor"
    /\ UNCHANGED <<nonJourneyVars>>

\* findAnchorPoint resolves; the age-0 point is pushed and the batch issued
AnchorResolved(anc) ==
    /\ jpc = "anchor"
    /\ anc \in AnchorOutcomes(jin.lat, jin.lon)
    /\ anchor' = anc
    /\ trajectoryPoints' = Append(trajectoryPoints, Point(0, jin.lat, jin.lon))
    /\ results' = [i \in DOMAIN AgeList(StepFor(jin.maxAge), jin.maxAge) |-> Pending]
    /\ queries' = [i \in DOMAIN AgeList(StepFor(jin.maxAge), jin.maxAge) |->
                      QueryFor(AgeList(StepFor(jin.maxAge), jin.maxAge)[i],
                               jin.lat, jin.lon, anc)]
    /\ jpc' = "batch"
    /\ UNCHANGED <<jin, nonJourneyVars>>

\* one promise of the batch settles: a reconstruction, or a failure
\* (HTTP error, network error, empty coordinates) turned into the fallback
QuerySettles(i, ok, recon) ==
    /\ jpc = "batch"
    /\ i \in DOMAIN results
    /\ results[i] = Pending
    /\ results' = [results EXCEPT ![i] =
            QueryResult(AgeList(StepFor(jin.maxAge), jin.maxAge)[i],
                        jin.lat, jin.lon, anchor, ok, recon)]
    /\ UNCHANGED <<jpc, jin, anchor, trajectoryPoints, queries, nonJourneyVars>>

\* the results appended as soon as one query has settled
BatchGatheredEarly ==
    /\ jpc = "batch"
    /\ \E i \in DOMAIN results : results[i] # Pending
    /\ trajectoryPoints' = trajectoryPoints \o SortByAge(results)
    /\ jpc' = "built"
    /\ UNCHANGED <<jin, anchor, results, queries, nonJourneyVars>>

\* Promise.all resolves: sort by age, append, return trajectoryPoints
BatchGathered ==
    /\ jpc = "batch"
    /\ \A i \in DOMAIN results : results[i] # Pending
    /\ trajectoryPoints' = trajectoryPoints \o SortByAge(results)
    /\ jpc' = "built"
    /\ UNCHANGED <<jin, anchor, results, queries, nonJourneyVars>>

\* the .then after fetchCoastlines(0): filterInvalidTrajectoryPoints()
FilterTrajectory ==
    /\ jpc = "built"
    /\ trajectoryPoints' = filterInvalidTrajectoryPoints(trajectoryPoints)
    /\ jpc' = "filtered"
    /\ UNCHANGED <<jin, anchor, results, queries, nonJourneyVars>>

\* setTimeout(..., 300): isPlaying = true
StartPlaying ==
    /\ jpc = "filtered"
    /\ jpc' = "playing"
    /\ UNCHANGED <<jin, anchor, results, trajectoryPoints, queries, nonJourneyVars>>

JourneyIdle ==
    /\ jpc = "idle"
    /\ jin = [lat |-> 0, lon |-> 0, maxAge |-> 0]
    /\ anchor = NoAnchor
    /\ results = <<>>
    /\ trajectoryPoints = <<>>
    /\ queries = <<>>

(***************************************************************************)
(* SpecGeom: the geometry utilities, splitAtDateLine (front end) and the   *)
(* two point-in-polygon functions (test_sync.py and the front end).        *)
(* A vertex is [lon, lat] in whole degrees.  The divisions of the          *)
(* ray-casting tests are exact here: an intersection abscissa is kept as   *)
(* <<numerator, denominator>>.                                             *)
(***************************************************************************)
MaxRingLen == 4          \* longest ring explored

Vertex(lon, lat) == [lon |-> lon, lat |-> lat]

\* the for loop of splitAtDateLine from index i (1-based here)
RECURSIVE SplitLoop(_, _, _, _)
SplitLoop(coordinates, i, segs, currentSegment) ==
    IF i > Len(coordinates)
    THEN (IF Len(currentSegment) > 0 THEN Append(segs, currentSegment) ELSE segs)
    ELSE LET coord == coordinates[i] IN
         IF Len(currentSegment) = 0
         THEN SplitLoop(coordinates, i + 1, segs, <<coord>>)
         ELSE LET prevCoord == currentSegment[Len(currentSegment)]
                  lonDiff == Abs(coord.lon - prevCoord.lon)
              IN IF lonDiff > 180
                 THEN SplitLoop(coordinates, i + 1, Append(segs, currentSegment), <<coord>>)
                 ELSE SplitLoop(coordinates, i + 1, segs, Append(currentSegment, coord))

\* a ring returned whole, never split
SplitNever(coordinates) == IF coordinates = <<>> THEN <<>> ELSE <<coordinates>>

splitAtDateLine(coordinates) == SplitLoop(coordinates, 1, <<>>, <<>>)

\* x <= n/d and x < n/d for an abscissa <<n, d>>, d # 0
LeqFrac(x, f) == IF f[2] > 0 THEN x * f[2] <= f[1] ELSE x * f[2] >= f[1]

\* the comparison with the sign of the denominator ignored
LessFracNoSign(x, f) == x * f[2] < f[1]

LessFrac(x, f) == IF f[2] > 0 THEN x * f[2] < f[1] ELSE x * f[2] > f[1]

Undefined == <<0, 0>>    \* xinters before its first assignment

\* the loop of point_in_polygon for i in range(1, n + 1); polygon[i % n] is
\* polygon[(i % n) + 1] here.  The result is "NameError" if xinters is read
\* before it was ever assigned.
RECURSIVE PyLoop(_, _, _, _, _, _, _)
PyLoop(x, y, polygon, i, p1, insideNow, xinters) ==
    LET n == Len(polygon) IN
    IF i > n THEN (IF insideNow THEN "true" ELSE "false")
    ELSE LET p2 == polygon[(i % n) + 1]
             crosses == /\ y > Min(p1.lat, p2.lat)
                        /\ y <= Max(p1.lat, p2.lat)
                        /\ x <= Max(p1.lon, p2.lon)
             xi == IF crosses /\ p1.lat # p2.lat
                   THEN <<(y - p1.lat) * (p2.lon - p1.lon) + p1.lon * (p2.lat - p1.lat),
                          p2.lat - p1.lat>>
                   ELSE xinters
         IN IF crosses /\ p1.lon # p2.lon /\ xi = Undefined
            THEN "NameError"
            ELSE PyLoop(x, y, polygon, i + 1, p2,
                        IF crosses /\ (p1.lon = p2.lon \/ LeqFrac(x, xi))
                        THEN ~insideNow ELSE insideNow,
                        xi)

\* test_sync.point_in_polygon(point_lon, point_lat, polygon)
point_in_polygon(point_lon, point_lat, polygon) ==
    PyLoop(point_lon, point_lat, polygon, 1, polygon[1], FALSE, Undefined)

\* only the first polygon of the list looked at
point_in_first_polygon(point_lon, point_lat, polygons) ==
    IF polygons # <<>> /\ Len(polygons[1]) >= 3
    THEN point_in_polygon(point_lon, point_lat, polygons[1])
    ELSE "false"

\* the loop `for polygon in polygons` of point_in_any_polygon from index i;
\* `and` does not evaluate point_in_polygon for a polygon of fewer than 3
\* vertices, and an exception of point_in_polygon leaves the function
RECURSIVE AnyLoop(_, _, _, _)
AnyLoop(point_lon, point_lat, polygons, i) ==
    IF i > Len(polygons) THEN "false"
    ELSE IF Len(polygons[i]) >= 3
         THEN LET r == point_in_polygon(point_lon, point_lat, polygons[i]) IN
              IF r = "false" THEN AnyLoop(point_lon, point_lat, polygons, i + 1) ELSE r
         ELSE AnyLoop(point_lon, point_lat, polygons, i + 1)

\* test_sync.point_in_any_polygon(point_lon, point_lat, polygons)
point_in_any_polygon(point_lon, point_lat, polygons) ==
    AnyLoop(point_lon, point_lat, polygons, 1)

\* the loop of isPointInPolygon: for (i = 0, j = n - 1; i < n; j = i++)
RECURSIVE JsLoop(_, _, _, _, _, _)
JsLoop(lat, lon, polygon, i, j, insideNow) ==
    IF i > Len(polygon) THEN (IF insideNow THEN "true" ELSE "false")
    ELSE LET yi == polygon[i].lat
             xi == polygon[i].lon
             yj == polygon[j].lat
             xj == polygon[j].lon
             hit == /\ (yi > lat) # (yj > lat)
                    /\ LessFrac(lon, <<(xj - xi) * (lat - yi) + xi * (yj - yi), yj - yi>>)
         IN JsLoop(lat, lon, polygon, i + 1, i, IF hit THEN ~insideNow ELSE insideNow)

\* isPointInPolygon(lat, lon, polygon) of the front end
isPointInPolygon(lat, lon, polygon) ==
    JsLoop(lat, lon, polygon, 1, Len(polygon), FALSE)

\* inputs: rings around the date line for the split, rings on a grid and test
\* points for the containment tests
SplitLons == {-179, -90, 0, 1, 179}
GridLons == {0, 5, 10}
GridLats == {0, 5, 10}
TestLons == {2, 5, 15}
TestLats == {3, 5, 15}
SeqsUpTo(S, lo, hi) == UNION {[1..n -> S] : n \in lo..hi}
SplitRings == SeqsUpTo({Vertex(lon, 0) : lon \in SplitLons}, 0, MaxRingLen)
GridRings == SeqsUpTo({Vertex(lon, lat) : lon \in GridLons, lat \in GridLats}, 3, MaxRingLen)
NoResult == [py |-> "none", js |-> "none"]

\* drawCoastlines...: const segments = splitAtDateLine(feature.coordinates)
SplitRing ==
    /\ gpc = "split"
    /\ segments' = splitAtDateLine(ring)
    /\ gpc' = "split_done"
    /\ UNCHANGED <<ring, gpoint, inside, nonGeomVars>>

\* test_sync: point_in_polygon(lon, lat, polygon)
PyContains ==
    /\ gpc = "pip"
    /\ inside.py = "none"
    /\ inside' = [inside EXCEPT !.py = point_in_polygon(gpoint.lon, gpoint.lat, ring)]
    /\ UNCHANGED <<gpc, ring, gpoint, segments, nonGeomVars>>

\* front end: isPointInPolygon(lat, lon, feature.coordinates)
JsContains ==
    /\ gpc = "pip"
    /\ inside.js = "none"
    /\ inside' = [inside EXCEPT !.js = isPointInPolygon(gpoint.lat, gpoint.lon, ring)]
    /\ UNCHANGED <<gpc, ring, gpoint, segments, nonGeomVars>>

GeomIdle ==
    /\ gpc = "idle"
    /\ ring = <<>>
    /\ gpoint = Vertex(0, 0)
    /\ segments = <<>>
    /\ inside = NoResult

(***************************************************************************)
(* SpecAnchor: findAnchorPoint and the use generateFullTrajectoryAsync     *)
(* makes of its result.  Here a coordinate is a JavaScript number: a       *)
(* binary floating-point value.  It is kept as an integer count of 1/16    *)
(* degree with FloatBits significant bits, every sum and difference        *)
(* rounded to the nearest such value (ties to even), as IEEE 754 does with *)
(* 53 bits.  Movements are compared through their squares.                 *)
(***************************************************************************)
FloatBits == 7           \* significant bits of a number
Deg == 16                \* one degree

RECURSIVE Pow2(_)
Pow2(n) == IF n = 0 THEN 1 ELSE 2 * Pow2(n - 1)

\* spacing of the representable values around magnitude m
RECURSIVE Ulp(_)
Ulp(m) == IF m < Pow2(FloatBits) THEN 1 ELSE 2 * Ulp(m \div 2)

\* round to nearest representable value, ties to even
Fl(x) ==
    LET m == Abs(x)
        u == Ulp(m)
        q == m \div u
        r == m % u
        up == 2 * r > u \/ (2 * r = u /\ q % 2 = 1)
        rounded == IF up THEN (q + 1) * u ELSE q * u
    IN IF x < 0 THEN 0 - rounded ELSE rounded

FlAdd(a, b) == Fl(a + b)
FlSub(a, b) == Fl(a - b)

Null == [isNull |-> TRUE]
PendingProbe == [isNull |-> FALSE, pending |-> TRUE]

\* testLat, testLon of the probe at (dist, angle); dist in degrees
testPointUnclamped(lat, lon, dist, angle) ==
    [lat |-> FlAdd(lat, Fl(RoundMilli(dist * Deg * CosMilli(angle)))),
     lon |-> FlAdd(lon, Fl(RoundMilli(dist * Deg * SinMilli(angle))))]

testPoint(lat, lon, dist, angle) ==
    [lat |-> Max(0 - 85 * Deg,
                 Min(85 * Deg, FlAdd(lat, Fl(RoundMilli(dist * Deg * CosMilli(angle)))))),
     lon |-> FlAdd(lon, Fl(RoundMilli(dist * Deg * SinMilli(angle))))]

\* movement squared, Math.pow(dLat, 2) + Math.pow(dLon, 2)
Movement2(d) == d[1] * d[1] + d[2] * d[2]
MovedThreshold2 == (Deg \div 2) * (Deg \div 2)      \* movement > 0.5
StrongThreshold2 == (2 * Deg) * (2 * Deg)           \* bestMovement > 2

\* { lat: testLat, lon: testLon, movement: mov, dist: dist }
ProbeResult(lat, lon, dist, angle, d) ==
    LET t == testPoint(lat, lon, dist, angle) IN
    [isNull |-> FALSE, pending |-> FALSE, lat |-> t.lat, lon |-> t.lon,
     movement2 |-> Movement2(d), dist |-> dist]

\* the anchor with the offset taken the wrong way round
AnchorOfSwapped(lat, lon, bestAnchor) ==
    [isNull |-> FALSE, anchorLat |-> bestAnchor.lat, anchorLon |-> bestAnchor.lon,
     offsetLat |-> FlSub(bestAnchor.lat, lat), offsetLon |-> FlSub(bestAnchor.lon, lon)]

\* return { anchorLat, anchorLon, offsetLat: lat - bestAnchor.lat, ... }
AnchorOf(lat, lon, bestAnchor) ==
    [isNull |-> FALSE, anchorLat |-> bestAnchor.lat, anchorLon |-> bestAnchor.lon,
     offsetLat |-> FlSub(lat, bestAnchor.lat), offsetLon |-> FlSub(lon, bestAnchor.lon)]

\* the loop taking every qualifying probe, the last one winning
RECURSIVE BestLoopLast(_, _, _)
BestLoopLast(rs, j, bestAnchor) ==
    IF j > Len(rs) THEN bestAnchor
    ELSE IF rs[j] # Null /\ rs[j].movement2 > MovedThreshold2
         THEN BestLoopLast(rs, j + 1, rs[j])
         ELSE BestLoopLast(rs, j + 1, bestAnchor)

\* the loop taking a probe that moved as much as the best so far, so that of
\* probes of equal movement the last one wins
RECURSIVE BestLoopTies(_, _, _)
BestLoopTies(rs, j, bestAnchor) ==
    IF j > Len(rs) THEN bestAnchor
    ELSE LET r == rs[j]
             bestMovement2 == IF bestAnchor = Null THEN 0 ELSE bestAnchor.movement2
         IN IF r # Null /\ r.movement2 > MovedThreshold2 /\ r.movement2 >= bestMovement2
            THEN BestLoopTies(rs, j + 1, r)
            ELSE BestLoopTies(rs, j + 1, bestAnchor)

\* the loop `for (const r of results)` from index j, returning bestAnchor
RECURSIVE BestLoop(_, _, _)
BestLoop(rs, j, bestAnchor) ==
    IF j > Len(rs) THEN bestAnchor
    ELSE LET r == rs[j]
             bestMovement2 == IF bestAnchor = Null THEN 0 ELSE bestAnchor.movement2
         IN IF r # Null /\ r.movement2 > MovedThreshold2 /\ r.movement2 > bestMovement2
            THEN BestLoop(rs, j + 1, r)
            ELSE BestLoop(rs, j + 1, bestAnchor)

\* displacements (dLat, dLon) the origin may report at age 50: none, exactly
\* 0.5, 1, exactly 2, and 2.125 degrees
Displacements == {<<0, 0>>, <<8, 0>>, <<0, 16>>, <<32, 0>>, <<0, 34>>}

\* a probe that failed (HTTP error, network error, no coordinates)
Failed == <<>>

\* what the probe at (radius index k, angle index j) may come back as: the
\* probes of MovingProbes anything, the others a failure (even j) or no motion
ProbeAnswers(k, j) ==
    IF <<k, j>> \in MovingProbes THEN {Failed} \cup Displacements
    ELSE IF j % 2 = 0 THEN {Failed} ELSE {<<0, 0>>}

AnchorLats == {5, 84 * Deg}
AnchorLons == {0 - 43 * Deg}
NoRecon == [lat |-> 0, lon |-> 0, offsetLat |-> 0, offsetLon |-> 0]
AllPending == [j \in 1..Len(searchAngles) |-> PendingProbe]

\* generateFullTrajectoryAsync: `await findAnchorPoint(lat, lon, modelName)`,
\* up to `await fetch(testUrl)`
StartAnchor(lat, lon) ==
    /\ apc = "idle"
    /\ ain' = [lat |-> lat, lon |-> lon]
    /\ apc' = "testing"
    /\ UNCHANGED <<aradius, aprobes, best, aseen, aret, arecon, nonAnchorVars>>

\* the original point's probe ignored: the radial search always starts
OriginalProbedAlwaysSearch(answer) ==
    /\ apc = "testing"
    /\ aradius' = 1
    /\ aprobes' = AllPending
    /\ apc' = "probing"
    /\ UNCHANGED <<aret, ain, best, aseen, arecon, nonAnchorVars>>

\* the probe of the original point settles: moved by more than 0.5 degrees
\* -> return null; otherwise (or on any failure) the first radius is issued
OriginalProbed(answer) ==
    /\ apc = "testing"
    /\ IF answer # Failed /\ Movement2(answer) > MovedThreshold2
       THEN /\ aret' = Null
            /\ apc' = "returned"
            /\ UNCHANGED <<aradius, aprobes>>
       ELSE /\ aradius' = 1
            /\ aprobes' = AllPending
            /\ apc' = "probing"
            /\ UNCHANGED aret
    /\ UNCHANGED <<ain, best, aseen, arecon, nonAnchorVars>>

\* one of the 8 probes of the radius settles
ProbeSettles(j, answer) ==
    /\ apc = "probing"
    /\ aprobes[j] = PendingProbe
    /\ answer \in ProbeAnswers(aradius, j)
    /\ aprobes' = [aprobes EXCEPT ![j] =
            IF answer = Failed THEN Null
            ELSE ProbeResult(ain.lat, ain.lon, searchDistances[aradius],
                             searchAngles[j], answer)]
    /\ UNCHANGED <<apc, ain, aradius, best, aseen, aret, arecon, nonAnchorVars>>

\* Promise.all(testPromises) resolves: pick the best, then break, go on to the
\* next radius or return
RadiusGathered ==
    /\ apc = "probing"
    /\ \A j \in DOMAIN aprobes : aprobes[j] # PendingProbe
    /\ LET bestAnchor == BestLoop(aprobes, 1, best)
           stop == bestAnchor # Null /\ bestAnchor.movement2 > StrongThreshold2
       IN /\ best' = bestAnchor
          /\ aseen' = aseen \cup {aprobes[j] : j \in {i \in DOMAIN aprobes : aprobes[i] # Null}}
          /\ IF stop \/ aradius = Len(searchDistances)
             THEN /\ aret' = IF bestAnchor # Null
                             THEN AnchorOf(ain.lat, ain.lon, bestAnchor) ELSE Null
                  /\ apc' = "returned"
                  /\ UNCHANGED <<aradius, aprobes>>
             ELSE /\ aradius' = aradius + 1
                  /\ aprobes' = AllPending
                  /\ UNCHANGED <<apc, aret>>
    /\ UNCHANGED <<ain, arecon, nonAnchorVars>>

\* reconLat = anchor ? anchor.anchorLat : lat, and the offset applied later
UseAnchor ==
    /\ apc = "returned"
    /\ arecon' = IF aret # Null
                 THEN [lat |-> aret.anchorLat, lon |-> aret.anchorLon,
                       offsetLat |-> aret.offsetLat, offsetLon |-> aret.offsetLon]
                 ELSE [lat |-> ain.lat, lon |-> ain.lon, offsetLat |-> 0, offsetLon |-> 0]
    /\ apc' = "used"
    /\ UNCHANGED <<ain, aradius, aprobes, best, aseen, aret, nonAnchorVars>>

AnchorIdle ==
    /\ apc = "idle"
    /\ ain = [lat |-> 0, lon |-> 0]
    /\ aradius = 0
    /\ aprobes = <<>>
    /\ best = Null
    /\ aseen = {}
    /\ aret = PendingProbe
    /\ arecon = NoRecon

(***************************************************************************)
(* SpecBulk: one run of download_gplates_full.py: generate_urls, the scan  *)
(* of the cache, then download_and_cache on a pool of worker threads.      *)
(* The grid is cut down to its first rows and columns and to age 0.        *)
(***************************************************************************)
GridLatRows == 2         \* rows of the grid taken, from latitude -90 upwards
GridLonCols == 2         \* columns of the grid taken, from longitude -180 eastwards
BulkThreads == 2         \* args.threads
coord_step == 5          \* default of --coord-step

\* the body of the two loops of generate_grid_coordinates for the row and the
\* column counted from 0: the latitude clamped to [-85, 85], the longitude
GridCoordinate(step, row, col) ==
    LET lat == -90 + row * step
        lon == -180 + col * step
    IN <<IF lat < -85 THEN -85 ELSE IF lat > 85 THEN 85 ELSE lat, lon>>

\* generate_grid_coordinates(step): for lat in range(-90, 91, step), for lon
\* in range(-180, 180, step), latitude clamped to [-85, 85]; row-major, as a
\* sequence of <<lat, lon>>
generate_grid_coordinates(step) ==
    [n \in 1..(GridLatRows * GridLonCols) |->
        GridCoordinate(step, (n - 1) \div GridLonCols, (n - 1) % GridLonCols)]

\* generate_urls for one model and the ages <<0>>: the coastlines url, then
\* one reconstruct_points url per grid coordinate
BulkUrlList ==
    LET coordinates == generate_grid_coordinates(coord_step)
        q(op, lat, lon) == [op |-> op, model |-> "SETON2012", age |-> 0,
                            lat |-> lat * 10, lon |-> lon * 10]
    IN <<UrlFullDownloader(q("coastlines", 0, 0))>>
       \o [n \in DOMAIN coordinates |->
              UrlFullDownloader(q("points", coordinates[n][1], coordinates[n][2]))]

BulkUrls == {BulkUrlList[n] : n \in DOMAIN BulkUrlList}
Threads == 1..BulkThreads
IdleThread == [pc |-> "idle", url |-> NoUrl]

Outcomes == {"cached", "partial", "failed"}

\* what a run amounts to when main prints its summary: interrupted, ended
\* with failed downloads, or everything in the cache
Outcome == IF bintr THEN "partial" ELSE IF bfailed > 0 THEN "failed" ELSE "cached"

\* main never calls sys.exit: it returns, and the interpreter ends with status 0
ExitStatus(outcome) == 0

\* main: to_download = the items of url_list whose cache file does not exist;
\* with nothing to download main returns, else every item is submitted to the
\* executor
BulkScan ==
    /\ bpc = "start"
    /\ LET to_download == SelectSeq(BulkUrlList, LAMBDA u : u \notin bcached) IN
       /\ bqueue' = to_download
       /\ bcount' = Len(BulkUrlList) - Len(to_download)
       /\ IF to_download = <<>>
          THEN /\ bpc' = "exited"
               /\ bexit' = ExitStatus("cached")
               /\ bexits' = [bexits EXCEPT !["cached"] = @ \cup {ExitStatus("cached")}]
          ELSE /\ bpc' = "running"
               /\ UNCHANGED <<bexit, bexits>>
    /\ UNCHANGED <<bcached, bthreads, bfetches, bintr, bcompleted, bdownloaded,
                   bfailed, bwritten, nonBulkVars>>

\* a worker thread takes the next call: download_and_cache up to its
\* cache_path.exists() test.  The executor's shutdown(wait=True) cancels
\* nothing, so the workers go on taking calls while main waits in __exit__
BulkTake(t) ==
    /\ bpc \in {"running", "draining"}
    /\ bthreads[t].pc = "idle"
    /\ bqueue # <<>>
    /\ bqueue' = Tail(bqueue)
    /\ IF Head(bqueue) \in bcached
       THEN /\ bcompleted' = Append(bcompleted, "cached")
            /\ UNCHANGED bthreads
       ELSE /\ bthreads' = [bthreads EXCEPT ![t] = [pc |-> "fetching", url |-> Head(bqueue)]]
            /\ UNCHANGED bcompleted
    /\ UNCHANGED <<bcount, bpc, bcached, bfetches, bintr, bdownloaded, bfailed, bwritten,
                   bexit, bexits, nonBulkVars>>

\* urllib.request.urlopen(url).read() and json.loads: the origin is asked;
\* on any failure the call returns (url, False, ...)
BulkFetch(t, ok) ==
    /\ bthreads[t].pc = "fetching"
    /\ bfetches' = [bfetches EXCEPT ![bthreads[t].url] = @ + 1]
    /\ IF ok
       THEN /\ bthreads' = [bthreads EXCEPT ![t] = [@ EXCEPT !.pc = "writing"]]
            /\ UNCHANGED bcompleted
       ELSE /\ bthreads' = [bthreads EXCEPT ![t] = IdleThread]
            /\ bcompleted' = Append(bcompleted, "failed")
    /\ UNCHANGED <<bcount, bpc, bcached, bqueue, bintr, bdownloaded, bfailed, bwritten,
                   bexit, bexits, nonBulkVars>>

\* cache_path.write_text(data); return (url, True, "downloaded")
BulkWrite(t) ==
    /\ bthreads[t].pc = "writing"
    /\ bcached' = bcached \cup {bthreads[t].url}
    /\ bwritten' = bwritten \cup {bthreads[t].url}
    /\ bthreads' = [bthreads EXCEPT ![t] = IdleThread]
    /\ bcompleted' = Append(bcompleted, "downloaded")
    /\ UNCHANGED <<bcount, bpc, bqueue, bfetches, bintr, bdownloaded, bfailed, bexit, bexits,
                   nonBulkVars>>

\* one turn of `for i, future in enumerate(as_completed(futures), 1)`
BulkCollect ==
    /\ bpc = "running"
    /\ bcompleted # <<>>
    /\ bcompleted' = Tail(bcompleted)
    /\ bdownloaded' = IF Head(bcompleted) = "downloaded" THEN bdownloaded + 1 ELSE bdownloaded
    /\ bfailed' = IF Head(bcompleted) = "failed" THEN bfailed + 1 ELSE bfailed
    /\ UNCHANGED <<bcount, bpc, bcached, bqueue, bthreads, bfetches, bintr, bwritten, bexit,
                   bexits, nonBulkVars>>

\* KeyboardInterrupt in the main thread inside the `with` block: the loop is
\* left and ThreadPoolExecutor.__exit__ calls shutdown(wait=True)
BulkInterrupt ==
    /\ bpc = "running"
    /\ bpc' = "draining"
    /\ bintr' = TRUE
    /\ UNCHANGED <<bcount, bcached, bqueue, bthreads, bfetches, bcompleted, bdownloaded,
                   bfailed, bwritten, bexit, bexits, nonBulkVars>>

\* shutdown(wait=True) returns once the workers have run every submitted
\* call; `except KeyboardInterrupt` then prints and main goes on to the summary
BulkDrained ==
    /\ bpc = "draining"
    /\ bqueue = <<>>
    /\ \A t \in Threads : bthreads[t].pc = "idle"
    /\ bpc' = "summary"
    /\ UNCHANGED <<bcount, bcached, bqueue, bthreads, bfetches, bintr, bcompleted, bdownloaded,
                   bfailed, bwritten, bexit, bexits, nonBulkVars>>

\* every future has been yielded by as_completed: the `with` block ends
BulkFinishedEarly ==
    /\ bpc = "running"
    /\ bcompleted = <<>>
    /\ \A t \in Threads : bthreads[t].pc = "idle"
    /\ bpc' = "summary"
    /\ UNCHANGED <<bcount, bcached, bqueue, bthreads, bfetches, bintr, bcompleted, bdownloaded,
                   bfailed, bwritten, bexit, bexits, nonBulkVars>>

BulkFinished ==
    /\ bpc = "running"
    /\ bqueue = <<>>
    /\ bcompleted = <<>>
    /\ \A t \in Threads : bthreads[t].pc = "idle"
    /\ bpc' = "summary"
    /\ UNCHANGED <<bcount, bcached, bqueue, bthreads, bfetches, bintr, bcompleted, bdownloaded,
                   bfailed, bwritten, bexit, bexits, nonBulkVars>>

\* the final summary is printed and main returns
BulkSummary ==
    /\ bpc = "summary"
    /\ bpc' = "exited"
    /\ bexit' = ExitStatus(Outcome)
    /\ bexits' = [bexits EXCEPT ![Outcome] = @ \cup {ExitStatus(Outcome)}]
    /\ UNCHANGED <<bcount, bcached, bqueue, bthreads, bfetches, bintr, bcompleted, bdownloaded,
                   bfailed, bwritten, nonBulkVars>>

\* the script is run again on the cache directory the last run left
BulkRerun ==
    /\ bpc = "exited"
    /\ bpc' = "start"
    /\ bqueue' = <<>>
    /\ bfetches' = [u \in BulkUrls |-> 0]
    /\ bintr' = FALSE
    /\ bcompleted' = <<>>
    /\ bdownloaded' = 0
    /\ bfailed' = 0
    /\ bwritten' = {}
    /\ bcount' = 0
    /\ UNCHANGED <<bcached, bthreads, bexit, bexits, nonBulkVars>>

\* the state of a run about to start, whatever the cache holds
BulkReady ==
    /\ bqueue = <<>>
    /\ bthreads = [t \in Threads |-> IdleThread]
    /\ bfetches = [u \in BulkUrls |-> 0]
    /\ bintr = FALSE
    /\ bcompleted = <<>>
    /\ bdownloaded = 0
    /\ bfailed = 0
    /\ bwritten = {}
    /\ bexit = 0
    /\ bexits = [o \in Outcomes |-> {}]
    /\ bcount = 0

BulkIdle ==
    /\ bpc = "start"
    /\ bcached = {}
    /\ BulkReady

(***************************************************************************)
(* SpecPools: who can have origin requests in flight.  Either one run of   *)
(* the bulk downloader (the SpecBulk actions, worker pool of args.threads) *)
(* or the proxy: an http.server.HTTPServer, whose serve_forever handles    *)
(* one request at a time on the server thread, fed by the batch of fetch   *)
(* calls the front end issues at once with Promise.all.                    *)
(***************************************************************************)
MaxFanOut == 3           \* most requests the front end issues in one batch

IdleServer == [req |-> 0, pc |-> "idle"]

\* ages.map(async (age) => fetch(url)) ... Promise.all(promises): n requests
\* are sent to the proxy at once
FrontendFanOut(n) ==
    /\ ppc = "listening"
    /\ fanout = {}
    /\ fanout' = 1..n
    /\ UNCHANGED <<ppc, pserving, porigin, nonPoolVars>>

\* a server that takes the next request while one is being handled
ServerAcceptThreaded(r) ==
    /\ ppc = "listening"
    /\ r \in fanout
    /\ r # pserving.req
    /\ pserving' = [req |-> r, pc |-> "lookup"]
    /\ UNCHANGED <<ppc, fanout, porigin, nonPoolVars>>

\* serve_forever: the server thread accepts the next connection only when the
\* handler of the previous one has returned; do_GET starts on request r
ServerAccept(r) ==
    /\ ppc = "listening"
    /\ pserving.pc = "idle"
    /\ r \in fanout
    /\ pserving' = [req |-> r, pc |-> "lookup"]
    /\ UNCHANGED <<ppc, fanout, porigin, nonPoolVars>>

\* do_GET: found in the memory tier or on disk, answered without the origin
ServerCacheHit ==
    /\ pserving.pc = "lookup"
    /\ fanout' = fanout \ {pserving.req}
    /\ pserving' = IdleServer
    /\ UNCHANGED <<ppc, porigin, nonPoolVars>>

\* do_GET: urllib.request.urlopen(gplates_url, timeout=30) is entered
ServerOriginStart ==
    /\ pserving.pc = "lookup"
    /\ pserving' = [pserving EXCEPT !.pc = "origin"]
    /\ porigin' = porigin + 1
    /\ UNCHANGED <<ppc, fanout, nonPoolVars>>

\* urlopen returns or raises; the reply (200 or 404) is sent
ServerOriginDone ==
    /\ pserving.pc = "origin"
    /\ porigin' = porigin - 1
    /\ fanout' = fanout \ {pserving.req}
    /\ pserving' = IdleServer
    /\ UNCHANGED <<ppc, nonPoolVars>>

PoolIdle ==
    /\ ppc = "stopped"
    /\ fanout = {}
    /\ pserving = IdleServer
    /\ porigin = 0

(***************************************************************************)
(* SpecSteps, SpecPolar, SpecOffline: one function applied to arguments    *)
(* drawn from its domain; fin holds the call, fout what it returned.       *)
(***************************************************************************)
NoCall == [fn |-> "none"]

FnIdle ==
    /\ fin = NoCall
    /\ fout = NoCall

MaxTrajectoryAge == 1000 \* largest maxAge of ROTATION_MODELS

\* generateFullTrajectoryAsync up to the list of ages: the step, the ages queried
ListAges ==
    /\ fin.fn = "ages"
    /\ fout = NoCall
    /\ fout' = [fn |-> "ages", step |-> StepFor(fin.maxAge),
                ages |-> AgeList(StepFor(fin.maxAge), fin.maxAge)]
    /\ UNCHANGED <<fin, nonFnVars>>

\* polygons of 0 to 3 vertices on the corners of a triangle, lists of up to
\* MaxPolygons of them, and a point inside, on the edge of and outside the
\* triangle
MaxPolygons == 2
CornerRings == SeqsUpTo({Vertex(0, 0), Vertex(10, 0), Vertex(0, 10)}, 0, 3)
PolygonLists == SeqsUpTo(CornerRings, 0, MaxPolygons)
AnyPoints == {Vertex(2, 3), Vertex(5, 5), Vertex(8, 8)}

\* test_sync.run_diagnostic: point_in_any_polygon(lon, lat, polygons)
AnyContains ==
    /\ fin.fn = "any"
    /\ fout = NoCall
    /\ fout' = [fn |-> "any",
                result |-> point_in_any_polygon(fin.point.lon, fin.point.lat, fin.polygons)]
    /\ UNCHANGED <<fin, nonFnVars>>

(***************************************************************************)
(* SpecSession and SpecCoast: the front end's globals.                     *)
(* SpecSession: startJourney, stopJourney and resetView called while the   *)
(* promise chains of earlier startJourney calls are still running.  Every  *)
(* call of startJourney has its own chain (its closure: specimen, results) *)
(* and all of them work on the globals trajectoryPoints, isPlaying and     *)
(* journeyData.  SpecCoast: the frames of animate, the view switch and     *)
(* the calls of fetchCoastlines with their continuations; there the build  *)
(* of the trajectory is one step.  An action is one task of the event      *)
(* loop: a call, a frame, or one continuation.  Coordinates in tenths of a *)
(* degree.  The origin moves a point by one tenth of a degree of latitude  *)
(* per Ma, so a point tells which specimen it was computed for;            *)
(* findAnchorPoint returns null.  One rotation model.                      *)
(***************************************************************************)
MaxBuilds == 2           \* startJourney calls explored
ProgressScale == 4       \* currentProgress advances in steps of 1 / ProgressScale
MaxFrameStep == 2        \* largest advance of one frame, in those steps

Specimens == {[latitude |-> 0, longitude |-> -432, fad_ma |-> 10],
              [latitude |-> 500, longitude |-> -432, fad_ma |-> 5]}

NoBuild == [pc |-> "none", specimen |-> Null, results |-> <<>>]

\* the ages generateFullTrajectoryAsync queries for a specimen
SpecimenAges(sp) == AgeList(StepFor(sp.fad_ma), sp.fad_ma)

\* what the origin reconstructs for a query
Reconstruct(age, lat, lon) == [lat |-> lat + age, lon |-> lon]

\* a promise chain of startJourney that has not reached its end
InFlight(b) == builds[b].pc \notin {"none", "done"}

\* the processed coastlines of an age
Coast(age) == [isNull |-> FALSE, age |-> age]

\* Math.round(age / 10) * 10 for an age >= 0 given in 1 / ProgressScale Ma
Round10(age) == ((age + 5 * ProgressScale) \div (10 * ProgressScale)) * 10

\* the coastline globals as one value, for the functions below
CoastState ==
    [cur |-> currentCoastlines, last2D |-> lastCoastlinesAge2D,
     cont |-> lastContinentAge, upd |-> isUpdatingCoastlines3D, fetches |-> cfetches]

SetCoastState(st) ==
    /\ currentCoastlines' = st.cur
    /\ lastCoastlinesAge2D' = st.last2D
    /\ lastContinentAge' = st.cont
    /\ isUpdatingCoastlines3D' = st.upd
    /\ cfetches' = st.fetches

\* a call fetchCoastlines(age) made by `by`: answered from coastlinesCache
\* (hit) or by a request to the proxy
FetchCall(by, age, cache) == [by |-> by, age |-> age, hit |-> age \in cache]

\* updateContinentPositions3D(age) up to `await fetchCoastlines(roundedAge)`
updateContinentPositions3D(st, age, cache) ==
    LET roundedAge == Round10(age) IN
    IF roundedAge = st.cont \/ st.upd THEN st
    ELSE [st EXCEPT !.upd = TRUE, !.cont = roundedAge,
                    !.fetches = @ \cup {FetchCall("3d", roundedAge, cache)}]

\* drawContinents2D(): the cache entry of the target age taken, or a fetch started
drawContinents2D(st, jd, age, cache) ==
    LET targetAge == IF jd # Null THEN Round10(age) ELSE 0 IN
    IF targetAge = st.last2D THEN st
    ELSE IF targetAge \in cache
         THEN [st EXCEPT !.cur = Coast(targetAge), !.last2D = targetAge]
         ELSE [st EXCEPT !.fetches = @ \cup {FetchCall("2d", targetAge, cache)}]

\* if (currentView === '2d' && ctx2D) draw2D()
draw2D(st, view, jd, age, cache) ==
    IF view = "2d" THEN drawContinents2D(st, jd, age, cache) ELSE st

nonFrontVars == <<cacheVars, keyVars, geomVars, anchorVars, bulkVars, poolVars, fnVars>>
nonSessionVars == <<jpc, jin, anchor, results, queries, nonFrontVars>>
sessionVars == <<builds, isPlaying, journeyData, overlap>>

\* startJourney(specimen): the globals reset, then generateFullTrajectoryAsync
\* up to its first await: trajectoryPoints = []
SessionStart(sp) ==
    /\ \E b \in 1..MaxBuilds :
          /\ builds[b].pc = "none"
          /\ \A c \in 1..(b - 1) : builds[c].pc # "none"
          /\ builds' = [builds EXCEPT ![b] = [pc |-> "anchor", specimen |-> sp,
                                              results |-> <<>>]]
    /\ overlap' = IF \E c \in 1..MaxBuilds : InFlight(c) THEN "restart" ELSE "none"
    /\ journeyData' = sp
    /\ currentProgress' = 0
    /\ isPlaying' = FALSE
    /\ currentAge' = 0
    /\ lastContinentAge' = -1
    /\ lastCoastlinesAge2D' = -1
    /\ isPaused' = FALSE
    /\ trajectoryPoints' = <<>>
    /\ UNCHANGED <<currentView, currentCoastlines, isUpdatingCoastlines3D, cfetches,
                   coastlinesCache, continentsGroup, nonSessionVars>>

\* `await findAnchorPoint` resumes: the age-0 point pushed, the batch issued
SessionAnchor(b) ==
    /\ builds[b].pc = "anchor"
    /\ trajectoryPoints' = Append(trajectoryPoints,
                                  Point(0, builds[b].specimen.latitude,
                                        builds[b].specimen.longitude))
    /\ builds' = [builds EXCEPT ![b].pc = "batch",
                                ![b].results = [i \in DOMAIN SpecimenAges(builds[b].specimen)
                                                  |-> Pending]]
    /\ UNCHANGED <<isPlaying, journeyData, overlap, animVars, coastVars, coastlinesCache,
                   continentsGroup, nonSessionVars>>

\* one query of the batch settles: a reconstruction or the fallback
SessionQuery(b, i, ok) ==
    /\ builds[b].pc = "batch"
    /\ i \in DOMAIN builds[b].results
    /\ builds[b].results[i] = Pending
    /\ LET sp == builds[b].specimen
           age == SpecimenAges(sp)[i]
       IN builds' = [builds EXCEPT ![b].results[i] =
              QueryResult(age, sp.latitude, sp.longitude, NoAnchor, ok,
                          Reconstruct(age, sp.latitude, sp.longitude))]
    /\ UNCHANGED <<trajectoryPoints, isPlaying, journeyData, overlap, animVars, coastVars,
                   coastlinesCache, continentsGroup, nonSessionVars>>

\* `await Promise.all(promises)` resumes: sort, push every result, return;
\* the first .then calls fetchCoastlines(0)
SessionGathered(b) ==
    /\ builds[b].pc = "batch"
    /\ \A i \in DOMAIN builds[b].results : builds[b].results[i] # Pending
    /\ trajectoryPoints' = trajectoryPoints \o SortByAge(builds[b].results)
    /\ builds' = [builds EXCEPT ![b].pc = "coast"]
    /\ UNCHANGED <<isPlaying, journeyData, overlap, animVars, coastVars, coastlinesCache,
                   continentsGroup, nonSessionVars>>

\* SpecCoast: generateFullTrajectoryAsync from `await findAnchorPoint` to its
\* return as one step, trajectoryPoints left aside
JourneyBuilt(b) ==
    /\ builds[b].pc = "anchor"
    /\ builds' = [builds EXCEPT ![b].pc = "coast"]
    /\ UNCHANGED <<trajectoryPoints, isPlaying, journeyData, overlap, animVars, coastVars,
                   coastlinesCache, continentsGroup, nonSessionVars>>

\* fetchCoastlines(0) returns (from coastlinesCache, or fetched: ok, or null)
\* and the second .then runs: the coastlines of age 0 installed if there are
\* any, filterInvalidTrajectoryPoints(), setTimeout(..., 300)
SessionFiltered(b, ok) ==
    /\ builds[b].pc = "coast"
    /\ IF 0 \in coastlinesCache \/ ok
       THEN /\ coastlinesCache' = coastlinesCache \cup {0}
            /\ currentCoastlines' = Coast(0)
            /\ lastCoastlinesAge2D' = 0
       ELSE UNCHANGED <<coastlinesCache, currentCoastlines, lastCoastlinesAge2D>>
    /\ trajectoryPoints' = filterInvalidTrajectoryPoints(trajectoryPoints)
    /\ builds' = [builds EXCEPT ![b].pc = "timer"]
    /\ UNCHANGED <<isPlaying, journeyData, overlap, animVars, lastContinentAge,
                   isUpdatingCoastlines3D, cfetches, continentsGroup, nonSessionVars>>

\* the timer fires: isPlaying = true
SessionTimer(b) ==
    /\ builds[b].pc = "timer"
    /\ isPlaying' = TRUE
    /\ builds' = [builds EXCEPT ![b].pc = "done"]
    /\ UNCHANGED <<trajectoryPoints, journeyData, overlap, animVars, coastVars,
                   coastlinesCache, continentsGroup, nonSessionVars>>

\* stopJourney(): isPlaying = false; isPaused = false; journeyData = null;
\* trajectoryPoints = []; draw2D() in the 2D view.  (A call that finds
\* journeyData null already changes nothing here.)
StopJourney ==
    /\ journeyData # Null
    /\ isPlaying' = FALSE
    /\ isPaused' = FALSE
    /\ journeyData' = Null
    /\ trajectoryPoints' = <<>>
    /\ overlap' = IF \E c \in 1..MaxBuilds : InFlight(c) THEN "stop" ELSE "none"
    /\ SetCoastState(draw2D(CoastState, currentView, Null, currentAge, coastlinesCache))
    /\ UNCHANGED <<builds, currentProgress, currentAge, currentView, coastlinesCache,
                   continentsGroup, nonSessionVars>>

\* resetView(): the same, and currentProgress = 0; currentAge = 0;
\* lastContinentAge = -1; updateContinentPositions3D(0); draw2D()
ResetView ==
    /\ journeyData # Null
    /\ isPlaying' = FALSE
    /\ isPaused' = FALSE
    /\ currentProgress' = 0
    /\ currentAge' = 0
    /\ journeyData' = Null
    /\ trajectoryPoints' = <<>>
    /\ overlap' = IF \E c \in 1..MaxBuilds : InFlight(c) THEN "stop" ELSE "none"
    /\ SetCoastState(draw2D(updateContinentPositions3D([CoastState EXCEPT !.cont = -1],
                                                       0, coastlinesCache),
                            currentView, Null, 0, coastlinesCache))
    /\ UNCHANGED <<builds, currentView, coastlinesCache, continentsGroup, nonSessionVars>>

\* animate(timestamp) with the test of currentProgress >= 1 left out of the
\* assignment of isPlaying
FrameKeepsPlaying(d) ==
    /\ journeyData # Null
    /\ isPlaying /\ ~isPaused
    /\ currentProgress' = IF currentProgress + d >= ProgressScale THEN ProgressScale
                          ELSE currentProgress + d
    /\ UNCHANGED isPlaying
    /\ currentAge' = currentProgress' * journeyData.fad_ma
    /\ SetCoastState(draw2D(updateContinentPositions3D(CoastState, currentAge',
                                                       coastlinesCache),
                            currentView, journeyData, currentAge', coastlinesCache))
    /\ UNCHANGED <<builds, journeyData, overlap, isPaused, currentView, coastlinesCache,
                   continentsGroup, trajectoryPoints, nonSessionVars>>

\* one frame, animate(timestamp), d the advance progressPerMs * deltaTime:
\* while playing the progress advances (and stops at 1), then
\* updateCurrentPositionSmooth() and with it updateContinentPositions3D;
\* in the 2D view draw2D() in every frame
Frame(d) ==
    /\ IF isPlaying /\ journeyData # Null /\ ~isPaused
       THEN /\ currentProgress' = IF currentProgress + d >= ProgressScale THEN ProgressScale
                                  ELSE currentProgress + d
            /\ isPlaying' = (currentProgress + d < ProgressScale)
            /\ currentAge' = currentProgress' * journeyData.fad_ma
            /\ SetCoastState(draw2D(updateContinentPositions3D(CoastState, currentAge',
                                                               coastlinesCache),
                                    currentView, journeyData, currentAge', coastlinesCache))
       ELSE /\ UNCHANGED <<currentProgress, isPlaying, currentAge>>
            /\ SetCoastState(draw2D(CoastState, currentView, journeyData, currentAge,
                                    coastlinesCache))
    /\ UNCHANGED <<builds, journeyData, overlap, isPaused, currentView, coastlinesCache,
                   continentsGroup, trajectoryPoints, nonSessionVars>>

\* togglePause()
TogglePause ==
    /\ journeyData # Null
    /\ isPaused' = ~isPaused
    /\ UNCHANGED <<sessionVars, currentProgress, currentAge, currentView, coastVars,
                   coastlinesCache, continentsGroup, trajectoryPoints, nonSessionVars>>

\* switchView(view): draw2D() for the 2D view, updateContinentPositions3D
\* (currentAge) for the 3D view
SwitchView(view) ==
    /\ view # currentView
    /\ currentView' = view
    /\ SetCoastState(IF view = "2d"
                     THEN drawContinents2D(CoastState, journeyData, currentAge,
                                           coastlinesCache)
                     ELSE updateContinentPositions3D(CoastState, currentAge,
                                                     coastlinesCache))
    /\ UNCHANGED <<sessionVars, isPaused, currentProgress, currentAge, coastlinesCache,
                   continentsGroup, trajectoryPoints, nonSessionVars>>

\* a call of fetchCoastlines returns: the cache entry, or the fetched
\* coastlines (ok, entered into coastlinesCache), or null; then the caller's
\* continuation runs:
\*   "3d"     updateContinentPositions3D after its await
\*   "2d"     the .then of drawContinents2D
\*   "init2d" the .then of init2D
FetchReturns3D(f, ok) ==
    /\ f \in cfetches
    /\ f.by = "3d"
    /\ coastlinesCache' = IF ~f.hit /\ ok THEN coastlinesCache \cup {f.age}
                          ELSE coastlinesCache
    /\ IF f.hit \/ ok
       THEN /\ currentCoastlines' = Coast(f.age)
            /\ continentsGroup' = Coast(f.age)
       ELSE UNCHANGED <<currentCoastlines, continentsGroup>>
    /\ isUpdatingCoastlines3D' = FALSE
    /\ cfetches' = cfetches \ {f}
    /\ UNCHANGED <<sessionVars, animVars, lastCoastlinesAge2D, lastContinentAge,
                   trajectoryPoints, nonSessionVars>>

FetchReturns2D(f, ok) ==
    /\ f \in cfetches
    /\ f.by = "2d"
    /\ coastlinesCache' = IF ~f.hit /\ ok THEN coastlinesCache \cup {f.age}
                          ELSE coastlinesCache
    /\ IF f.hit \/ ok
       THEN /\ currentCoastlines' = Coast(f.age)
            /\ lastCoastlinesAge2D' = f.age
       ELSE UNCHANGED <<currentCoastlines, lastCoastlinesAge2D>>
    /\ cfetches' = cfetches \ {f}
    /\ UNCHANGED <<sessionVars, animVars, lastContinentAge, isUpdatingCoastlines3D,
                   continentsGroup, trajectoryPoints, nonSessionVars>>

FetchReturnsInit2D(f, ok) ==
    /\ f \in cfetches
    /\ f.by = "init2d"
    /\ coastlinesCache' = IF ~f.hit /\ ok THEN coastlinesCache \cup {f.age}
                          ELSE coastlinesCache
    /\ SetCoastState(draw2D([CoastState EXCEPT
                                !.cur = IF f.hit \/ ok THEN Coast(f.age) ELSE Null,
                                !.fetches = @ \ {f}],
                            currentView, journeyData, currentAge, coastlinesCache'))
    /\ UNCHANGED <<sessionVars, animVars, continentsGroup, trajectoryPoints, nonSessionVars>>

FrontIdle ==
    /\ builds = [b \in 1..MaxBuilds |-> NoBuild]
    /\ isPlaying = FALSE
    /\ journeyData = Null
    /\ overlap = "none"
    /\ isPaused = FALSE
    /\ currentProgress = 0
    /\ currentAge = 0
    /\ currentView = "3d"
    /\ currentCoastlines = Null
    /\ lastCoastlinesAge2D = -1
    /\ lastContinentAge = -1
    /\ isUpdatingCoastlines3D = FALSE
    /\ coastlinesCache = {}
    /\ cfetches = {}
    /\ continentsGroup = Null

\* trajectories of up to MaxTrajLen points, in any order of ages, with
\* latitudes that are close, a large jump apart, and out of range
MaxTrajLen == 3
FilterPoints == {Point(age, lat, 0) : age \in {0, 10, 20}, lat \in {0, 400, 700, 950}}
Trajectories == SeqsUpTo(FilterPoints, 0, MaxTrajLen)

\* filterInvalidTrajectoryPoints() applied to trajectoryPoints = fin.pts
FilterOnce ==
    /\ fin.fn = "filter"
    /\ fout = NoCall
    /\ fout' = [fn |-> "filter", passes |-> 1,
                pts |-> filterInvalidTrajectoryPoints(fin.pts), first |-> <<>>]
    /\ UNCHANGED <<fin, nonFnVars>>

\* filterInvalidTrajectoryPoints() called again on what the first call left
FilterAgain ==
    /\ fout.fn = "filter"
    /\ fout.passes = 1
    /\ fout' = [fn |-> "filter", passes |-> 2,
                pts |-> filterInvalidTrajectoryPoints(fout.pts), first |-> fout.pts]
    /\ UNCHANGED <<fin, nonFnVars>>

\* a position: latitude and longitude as exact fractions <<numerator, denominator>>
Pos(latNum, lonNum, den) == [lat |-> <<latNum, den>>, lon |-> <<lonNum, den>>]
NoPos == [lat |-> <<0, 0>>, lon |-> <<0, 0>>]

\* lat: p1.lat + t * (p2.lat - p1.lat) with t = (age - p1.age) / (p2.age - p1.age)
Interpolate(p1, p2, age) ==
    Pos(p1.lat * (p2.age - p1.age) + (age - p1.age) * (p2.lat - p1.lat),
        p1.lon * (p2.age - p1.age) + (age - p1.age) * (p2.lon - p1.lon),
        p2.age - p1.age)

\* the loop of getReconstructedPosition from index i (1-based here)
RECURSIVE ReconstructedLoop(_, _, _)
ReconstructedLoop(pts, age, i) ==
    IF i > Len(pts) - 1 THEN Pos(pts[Len(pts)].lat, pts[Len(pts)].lon, 1)
    ELSE IF age >= pts[i].age /\ age <= pts[i + 1].age
         THEN Interpolate(pts[i], pts[i + 1], age)
         ELSE ReconstructedLoop(pts, age, i + 1)

\* getReconstructedPosition(age) on trajectoryPoints = pts
getReconstructedPosition(pts, original, age) ==
    IF Len(pts) = 0 THEN Pos(original.lat, original.lon, 1)
    ELSE ReconstructedLoop(pts, age, 1)

\* the loop of getTrajectoryPosition from index i; jump > 30 degrees
RECURSIVE TrajectoryLoop(_, _, _)
TrajectoryLoop(pts, age, i) ==
    IF i > Len(pts) - 1 THEN Pos(pts[Len(pts)].lat, pts[Len(pts)].lon, 1)
    ELSE LET p1 == pts[i]
             p2 == pts[i + 1]
             jump2 == (p2.lat - p1.lat) * (p2.lat - p1.lat) +
                      (p2.lon - p1.lon) * (p2.lon - p1.lon)
         IN IF jump2 > 300 * 300 /\ age >= p1.age
            THEN Pos(p1.lat, p1.lon, 1)
            ELSE IF age >= p1.age /\ age <= p2.age
                 THEN IF p2.age - p1.age > 0 THEN Interpolate(p1, p2, age)
                      ELSE Pos(p1.lat, p1.lon, 1)
                 ELSE TrajectoryLoop(pts, age, i + 1)

\* getTrajectoryPosition(age) on trajectoryPoints = pts
getTrajectoryPosition(pts, original, age) ==
    IF Len(pts) = 0 THEN Pos(original.lat, original.lon, 1)
    ELSE TrajectoryLoop(pts, age, 1)

\* validated trajectories with ages 0, 10, 20: what the filter leaves of a
\* trajectory of up to MaxTrajLen points with strictly increasing ages
LookupLats == {0, 200, 250, 400}
LookupLons == {0, 250}
LookupAges == {0, 5, 10, 15, 20, 25}
RawTrajectories ==
    {pts \in UNION {[1..n -> [lat : LookupLats, lon : LookupLons]] : n \in 0..MaxTrajLen} :
        TRUE}
ValidatedTrajectories ==
    {filterInvalidTrajectoryPoints([i \in DOMAIN raw |->
                                       Point((i - 1) * 10, raw[i].lat, raw[i].lon)]) :
        raw \in RawTrajectories}

\* updateCurrentPositionSmooth: getReconstructedPosition(currentAge)
LookupReconstructed ==
    /\ fin.fn = "lookup"
    /\ fout.recon = NoPos
    /\ fout' = [fn |-> "lookup",
                recon |-> getReconstructedPosition(fin.pts, fin.original, fin.age),
                traj |-> fout.traj]
    /\ UNCHANGED <<fin, nonFnVars>>

\* drawCurrentMarker2D: getTrajectoryPosition(currentAge)
LookupTrajectory ==
    /\ fin.fn = "lookup"
    /\ fout.traj = NoPos
    /\ fout' = [fn |-> "lookup",
                recon |-> fout.recon,
                traj |-> getTrajectoryPosition(fin.pts, fin.original, fin.age)]
    /\ UNCHANGED <<fin, nonFnVars>>

CacheIdle ==
    /\ workers = [w \in Workers |-> IdleWorker]
    /\ disk = [p \in CachePaths |-> Absent]
    /\ mem = [u \in Urls |-> Absent]
    /\ reply = NoReply
    /\ served = [u \in Urls |-> Absent]

\* The cache directory and the memory tier start empty
InitCache == CacheIdle /\ KeyIdle /\ JourneyIdle /\ GeomIdle /\ AnchorIdle /\ BulkIdle /\ PoolIdle /\ FnIdle /\ FrontIdle

NextCache ==
    \/ \E u \in Urls : ProxyGet([u EXCEPT !.host = LOCAL_PROXY])
    \/ \E w \in Workers, u \in Urls : StartCall(w, u)
    \/ \E w \in Workers : FetchFails(w)
    \/ \E w \in Workers, body \in {Bad} \cup {Raw(u) : u \in Urls} : FetchReturns(w, body)
    \/ \E w \in Workers : OpenForWrite(w)
    \/ \E w \in Workers : OpenFails(w)
    \/ \E w \in Workers : WriteText(w)
    \/ \E w \in Workers : WriteFails(w)

SpecCache == InitCache /\ [][NextCache]_vars

InitKey ==
    /\ kq \in KeyQueries
    /\ kurl = [c \in Components |-> NoKey]
    /\ CacheIdle
    /\ JourneyIdle
    /\ GeomIdle
    /\ AnchorIdle
    /\ BulkIdle
    /\ PoolIdle
    /\ FnIdle
    /\ FrontIdle

NextKey == \E c \in Components : DeriveKey(c)

SpecKey == InitKey /\ [][NextKey]_vars

InitJourney == JourneyIdle /\ CacheIdle /\ KeyIdle /\ GeomIdle /\ AnchorIdle /\ BulkIdle /\ PoolIdle /\ FnIdle /\ FrontIdle

NextJourney ==
    \/ \E lat \in JourneyLats, lon \in JourneyLons, maxAge \in JourneyMaxAges :
          StartJourney(lat, lon, maxAge)
    \/ \E anc \in AnchorOutcomes(jin.lat, jin.lon) : AnchorResolved(anc)
    \/ \E i \in DOMAIN results :
          \/ \E recon \in OriginPoints : QuerySettles(i, TRUE, recon)
          \/ QuerySettles(i, FALSE, [lat |-> 0, lon |-> 0])
    \/ BatchGathered
    \/ FilterTrajectory
    \/ StartPlaying

SpecJourney == InitJourney /\ [][NextJourney]_vars

InitGeom ==
    /\ \/ gpc = "split" /\ ring \in SplitRings /\ gpoint = Vertex(0, 0)
       \/ /\ gpc = "pip"
          /\ ring \in GridRings
          /\ gpoint \in {Vertex(lon, lat) : lon \in TestLons, lat \in TestLats}
    /\ segments = <<>>
    /\ inside = NoResult
    /\ CacheIdle
    /\ KeyIdle
    /\ JourneyIdle
    /\ AnchorIdle
    /\ BulkIdle
    /\ PoolIdle
    /\ FnIdle
    /\ FrontIdle

NextGeom == SplitRing \/ PyContains \/ JsContains

SpecGeom == InitGeom /\ [][NextGeom]_vars

InitAnchor == AnchorIdle /\ CacheIdle /\ KeyIdle /\ JourneyIdle /\ GeomIdle /\ BulkIdle /\ PoolIdle /\ FnIdle /\ FrontIdle

NextAnchor ==
    \/ \E lat \in AnchorLats, lon \in AnchorLons : StartAnchor(lat, lon)
    \/ \E answer \in {Failed} \cup Displacements : OriginalProbed(answer)
    \/ \E j \in 1..Len(searchAngles), answer \in {Failed} \cup Displacements :
          ProbeSettles(j, answer)
    \/ RadiusGathered
    \/ UseAnchor

SpecAnchor == InitAnchor /\ [][NextAnchor]_vars

\* a run starts with any part of the cache already on disk
InitBulk ==
    /\ bpc = "start"
    /\ bcached \in SUBSET BulkUrls
    /\ BulkReady
    /\ CacheIdle
    /\ KeyIdle
    /\ JourneyIdle
    /\ GeomIdle
    /\ AnchorIdle
    /\ PoolIdle
    /\ FnIdle
    /\ FrontIdle

NextBulk ==
    \/ BulkScan
    \/ \E t \in Threads : BulkTake(t)
    \/ \E t \in Threads, ok \in BOOLEAN : BulkFetch(t, ok)
    \/ \E t \in Threads : BulkWrite(t)
    \/ BulkCollect
    \/ BulkInterrupt
    \/ BulkDrained
    \/ BulkFinished
    \/ BulkSummary
    \/ BulkRerun

SpecBulk == InitBulk /\ [][NextBulk]_vars

\* the worker threads are scheduled fairly, every origin call returns or
\* times out, and main is not starved; nothing obliges an interrupt or a rerun
BulkFairness ==
    /\ WF_vars(BulkScan)
    /\ \A t \in Threads : WF_vars(BulkTake(t))
    /\ \A t \in Threads : WF_vars(\E ok \in BOOLEAN : BulkFetch(t, ok))
    /\ \A t \in Threads : WF_vars(BulkWrite(t))
    /\ WF_vars(BulkCollect)
    /\ WF_vars(BulkDrained)
    /\ WF_vars(BulkFinished)
    /\ WF_vars(BulkSummary)

SpecBulkFair == SpecBulk /\ BulkFairness

\* either a bulk run about to start and no proxy, or the proxy listening
\* (start_gplates_proxy has run) and no bulk run
InitPools ==
    /\ \/ /\ bpc = "start"
          /\ bcached \in SUBSET BulkUrls
          /\ PoolIdle
       \/ /\ bpc = "off"
          /\ bcached = {}
          /\ ppc = "listening"
          /\ fanout = {}
          /\ pserving = IdleServer
          /\ porigin = 0
    /\ BulkReady
    /\ CacheIdle
    /\ KeyIdle
    /\ JourneyIdle
    /\ GeomIdle
    /\ AnchorIdle
    /\ FnIdle
    /\ FrontIdle

NextPools ==
    \/ NextBulk
    \/ \E n \in 1..MaxFanOut : FrontendFanOut(n)
    \/ \E r \in 1..MaxFanOut : ServerAccept(r)
    \/ ServerCacheHit
    \/ ServerOriginStart
    \/ ServerOriginDone

SpecPools == InitPools /\ [][NextPools]_vars

\* the coordinates of findAnchorPoint(lat, lon) for one radius and one angle
PolarProbe ==
    /\ fin.fn = "testPoint"
    /\ fout = NoCall
    /\ fout' = [fn |-> "testPoint",
                point |-> testPoint(fin.lat, fin.lon, searchDistances[fin.k],
                                    searchAngles[fin.j])]
    /\ UNCHANGED <<fin, nonFnVars>>

\* generate_grid_coordinates(step): the first coordinate of every row,
\* for lat in range(-90, 91, step)
GridColumn ==
    /\ fin.fn = "grid"
    /\ fout = NoCall
    /\ fout' = [fn |-> "grid",
                coords |-> [n \in 1..((180 \div fin.step) + 1) |->
                               GridCoordinate(fin.step, n - 1, 0)]]
    /\ UNCHANGED <<fin, nonFnVars>>

\* ROTATION_MODELS of download_gplates_cache.py: model -> age limit in Ma
ROTATION_MODELS == [MULLER2022 |-> 1000, MERDITH2021 |-> 1000, SETON2012 |-> 200]

\* get_ages_for_model(max_age): 0, then every 10 Ma up to 100, every 20 Ma
\* from 120 up to 200, every 50 Ma from 250 on, none beyond max_age
get_ages_for_model(max_age) ==
    {0} \cup {age \in 10..Min(100, max_age) : age % 10 = 0}
        \cup {age \in 120..Min(200, max_age) : age % 20 = 0}
        \cup {age \in 250..max_age : age % 50 = 0}

\* two of the PRESET_COORDINATES, <<lat, lon>> in tenths: (-5.20, -36.50)
\* and (-29.00, -51.00)
PRESET_COORDINATES == {<<-52, -365>>, <<-290, -510>>}

PointQuery(model, age, lat, lon) ==
    [op |-> "points", model |-> model, age |-> age * 10, lat |-> lat, lon |-> lon]

\* the cache files of the reconstruct_points urls of
\* download_gplates_cache.generate_urls, all of them downloaded
PrefetchedPaths ==
    UNION {{get_cache_path(UrlCacheDownloader(PointQuery(model, age, pt[1], pt[2]))) :
               pt \in PRESET_COORDINATES,
               age \in get_ages_for_model(ROTATION_MODELS[model])} :
           model \in DOMAIN ROTATION_MODELS}

\* the proxy requests of one trajectory build of a point that needs no
\* anchor: findAnchorPoint's probe at 50 Ma, then one per age of the list
BuildRequests(lat, lon, model, maxAge) ==
    {UrlFrontend(PointQuery(model, 50, lat, lon))}
    \cup {UrlFrontend(PointQuery(model, AgeList(StepFor(maxAge), maxAge)[i], lat, lon)) :
             i \in DOMAIN AgeList(StepFor(maxAge), maxAge)}

\* a build through the proxy on the prefetched cache: the requests whose
\* cache file load_from_disk_cache does not find
OfflineBuild ==
    /\ fin.fn = "build"
    /\ fout = NoCall
    /\ fout' = [fn |-> "build",
                missing |-> {u \in BuildRequests(fin.lat, fin.lon, fin.model, fin.maxAge) :
                                get_cache_path(u) \notin PrefetchedPaths}]
    /\ UNCHANGED <<fin, nonFnVars>>

InitOffline ==
    /\ fin \in {[fn |-> "build", lat |-> pt[1], lon |-> pt[2], model |-> model,
                 maxAge |-> maxAge] :
                    pt \in PRESET_COORDINATES, model \in {"MULLER2022", "SETON2012"},
                    maxAge \in 0..MaxTrajectoryAge}
    /\ fin.maxAge <= ROTATION_MODELS[fin.model]
    /\ fout = NoCall
    /\ CacheIdle
    /\ KeyIdle
    /\ JourneyIdle
    /\ GeomIdle
    /\ AnchorIdle
    /\ BulkIdle
    /\ PoolIdle
    /\ FrontIdle

NextOffline == OfflineBuild

SpecOffline == InitOffline /\ [][NextOffline]_vars

MaxGridStep == 30        \* largest --coord-step explored

InitPolar ==
    /\ fin \in [fn : {"testPoint"}, lat : {l * Deg : l \in -90..90}, lon : {0},
                k : DOMAIN searchDistances, j : DOMAIN searchAngles]
              \cup [fn : {"grid"}, step : 1..MaxGridStep]
    /\ fout = NoCall
    /\ CacheIdle
    /\ KeyIdle
    /\ JourneyIdle
    /\ GeomIdle
    /\ AnchorIdle
    /\ BulkIdle
    /\ PoolIdle
    /\ FrontIdle

NextPolar == PolarProbe \/ GridColumn

SpecPolar == InitPolar /\ [][NextPolar]_vars

InitSteps ==
    /\ fin \in [fn : {"ages"}, maxAge : 0..MaxTrajectoryAge]
    /\ fout = NoCall
    /\ CacheIdle
    /\ KeyIdle
    /\ JourneyIdle
    /\ GeomIdle
    /\ AnchorIdle
    /\ BulkIdle
    /\ PoolIdle
    /\ FrontIdle

NextSteps == ListAges

SpecSteps == InitSteps /\ [][NextSteps]_vars

InitAny ==
    /\ fin \in [fn : {"any"}, point : AnyPoints, polygons : PolygonLists]
    /\ fout = NoCall
    /\ CacheIdle
    /\ KeyIdle
    /\ JourneyIdle
    /\ GeomIdle
    /\ AnchorIdle
    /\ BulkIdle
    /\ PoolIdle
    /\ FrontIdle

NextAny == AnyContains

SpecAny == InitAny /\ [][NextAny]_vars

InitSession ==
    /\ FrontIdle
    /\ CacheIdle
    /\ KeyIdle
    /\ JourneyIdle
    /\ GeomIdle
    /\ AnchorIdle
    /\ BulkIdle
    /\ PoolIdle
    /\ FnIdle

NextSession ==
    \/ \E sp \in Specimens : SessionStart(sp)
    \/ \E b \in 1..MaxBuilds :
          \/ SessionAnchor(b)
          \/ \E i \in 1..2, ok \in BOOLEAN : SessionQuery(b, i, ok)
          \/ SessionGathered(b)
          \/ \E ok \in BOOLEAN : SessionFiltered(b, ok)
          \/ SessionTimer(b)
    \/ StopJourney
    \/ ResetView

SpecSession == InitSession /\ [][NextSession]_vars

InitFilter ==
    /\ fin \in [fn : {"filter"}, pts : Trajectories]
    /\ fout = NoCall
    /\ CacheIdle
    /\ KeyIdle
    /\ JourneyIdle
    /\ GeomIdle
    /\ AnchorIdle
    /\ BulkIdle
    /\ PoolIdle
    /\ FrontIdle

NextFilter == FilterOnce \/ FilterAgain

SpecFilter == InitFilter /\ [][NextFilter]_vars

InitLookup ==
    /\ fin \in [fn : {"lookup"}, pts : ValidatedTrajectories,
                 original : {[lat |-> 0, lon |-> 0]}, age : LookupAges]
    /\ fout = [fn |-> "lookup", recon |-> NoPos, traj |-> NoPos]
    /\ CacheIdle
    /\ KeyIdle
    /\ JourneyIdle
    /\ GeomIdle
    /\ AnchorIdle
    /\ BulkIdle
    /\ PoolIdle
    /\ FrontIdle

NextLookup == LookupReconstructed \/ LookupTrajectory

SpecLookup == InitLookup /\ [][NextLookup]_vars

\* the page has loaded: init3D has called updateContinentPositions3D(0) and
\* init2D fetchCoastlines(0), neither has returned yet
InitCoast ==
    /\ builds = [b \in 1..MaxBuilds |-> NoBuild]
    /\ isPlaying = FALSE
    /\ journeyData = Null
    /\ overlap = "none"
    /\ isPaused = FALSE
    /\ currentProgress = 0
    /\ currentAge = 0
    /\ currentView = "3d"
    /\ currentCoastlines = Null
    /\ lastCoastlinesAge2D = -1
    /\ lastContinentAge = 0
    /\ isUpdatingCoastlines3D = TRUE
    /\ coastlinesCache = {}
    /\ cfetches = {FetchCall("3d", 0, {}), FetchCall("init2d", 0, {})}
    /\ continentsGroup = Null
    /\ CacheIdle
    /\ KeyIdle
    /\ JourneyIdle
    /\ GeomIdle
    /\ AnchorIdle
    /\ BulkIdle
    /\ PoolIdle
    /\ FnIdle

FetchCalls == [by : {"3d", "2d", "init2d"}, age : {0, 10}, hit : BOOLEAN]

NextCoast ==
    \/ \E sp \in Specimens : SessionStart(sp)
    \/ \E b \in 1..MaxBuilds :
          \/ JourneyBuilt(b)
          \/ \E ok \in BOOLEAN : SessionFiltered(b, ok)
          \/ SessionTimer(b)
    \/ StopJourney
    \/ ResetView
    \/ \E d \in 0..MaxFrameStep : Frame(d)
    \/ TogglePause
    \/ \E view \in {"2d", "3d"} : SwitchView(view)
    \/ \E f \in FetchCalls, ok \in BOOLEAN :
          \/ FetchReturns3D(f, ok)
          \/ FetchReturns2D(f, ok)
          \/ FetchReturnsInit2D(f, ok)

SpecCoast == InitCoast /\ [][NextCoast]_vars

\* the browser keeps scheduling frames, every call of fetchCoastlines returns
\* and every promise chain of startJourney goes on; the user's calls
\* (startJourney, stopJourney, resetView, togglePause, switchView) may never come
CoastFairness ==
    /\ WF_vars(\E d \in 1..MaxFrameStep : Frame(d))
    /\ WF_vars(Frame(0))
    /\ \A f \in FetchCalls :
          /\ WF_vars(FetchReturns3D(f, TRUE))
          /\ WF_vars(FetchReturns2D(f, TRUE))
          /\ WF_vars(FetchReturnsInit2D(f, TRUE))
    /\ \A b \in 1..MaxBuilds :
          /\ WF_vars(JourneyBuilt(b))
          /\ WF_vars(SessionFiltered(b, TRUE))
          /\ WF_vars(SessionTimer(b))

SpecCoastFair == SpecCoast /\ CoastFairness

(***************************************************************************)
(* Properties of the cache (SpecCache)                                     *)
(***************************************************************************)
ProxyRequest(u) == ProxyGet([u EXCEPT !.host = LOCAL_PROXY])

\* the handler leaves the origin branch in this step (the fetch had succeeded)
ProxyOriginDone ==
    /\ workers["proxy"].pc \in {"saving", "writing"}
    /\ workers'["proxy"].pc = "idle"

\* C1: once a GET of a url has been answered 200, every later GET of that url
\* in the same process is answered 200 with the same bytes, without going to
\* the origin.
C1_CacheIdempotence ==
    [][\A u \in Urls :
         (served[u] # Absent /\ ProxyRequest(u)) =>
            /\ reply'.url = u
            /\ reply'.status = 200
            /\ reply'.body = served[u]
            /\ workers'["proxy"].pc = "idle"]_vars

C1_Witness ==
    /\ reply.status = 200
    /\ reply.tier = "memory"
    /\ reply.body = served[reply.url]

\* C2: every complete entry of the cache directory parses as JSON, whoever
\* wrote it and whatever the origin answered.
C2_NoCachePoisoning ==
    \A p \in CachePaths : Complete(disk[p]) => IsJson(disk[p])

C4_FailureNotCached ==
    [][/\ FetchFails("proxy") =>
            /\ reply'.status = 404
            /\ reply'.url = workers["proxy"].url
            /\ mem' = mem
            /\ disk' = disk
       /\ \A u \in Urls :
            (reply.status = 404 /\ reply.url = u /\ ProxyRequest(u)
                /\ ~Truthy(disk[get_cache_path(u)])) =>
            (workers'["proxy"].pc = "fetching" /\ workers'["proxy"].url = u)]_vars

\* a 404 was answered and the same url is being asked of the origin again
C4_Witness ==
    /\ reply.status = 404
    /\ workers["proxy"].pc = "fetching"
    /\ workers["proxy"].url = reply.url

\* C6: two writers holding the same origin response for the same key are
\* about to store the same bytes.
C6_EqualContentAcrossWriters ==
    \A w1, w2 \in Workers :
        (/\ workers[w1].pc \in {"saving", "writing"}
         /\ workers[w2].pc \in {"saving", "writing"}
         /\ workers[w1].url = workers[w2].url
         /\ workers[w1].body = workers[w2].body)
        => workers[w1].data = workers[w2].data

\* C7: a complete entry of the cache directory never changes.
C7_EntriesImmutable ==
    [][\A p \in CachePaths : Complete(disk[p]) => disk'[p] = disk[p]]_vars

\* C8: a cache file that exists holds a complete payload that parses as JSON.
C8_NoPartialEntry ==
    \A u \in Urls : Exists(disk, u) =>
        (Complete(disk[get_cache_path(u)]) /\ IsJson(disk[get_cache_path(u)]))

(***************************************************************************)
(* Properties of the key derivation (SpecKey)                              *)
(***************************************************************************)
\* C5: all components that derive a key for the same query derive the same key.
C5_KeyStability ==
    \A c1, c2 \in Components :
        (kurl[c1] # NoKey /\ kurl[c2] # NoKey) => kurl[c1] = kurl[c2]

(***************************************************************************)
(* Properties of the journey (SpecJourney)                                 *)
(***************************************************************************)
StrictlyIncreasingAges(pts) ==
    \A i \in 1..(Len(pts) - 1) : pts[i].age < pts[i + 1].age

\* a point that is the failure fallback: the input coordinates at an age > 0
IsFallback(pt) == pt.age > 0 /\ pt.lat = jin.lat /\ pt.lon = jin.lon

\* C9: the trajectory returned by generateFullTrajectoryAsync has strictly
\* increasing ages and starts with age 0 at the input coordinates, whatever
\* the anchor, the order in which the queries settle and which of them fail.
C9_TrajectoryMonotonic ==
    jpc \in {"built", "filtered", "playing"} =>
        /\ Len(trajectoryPoints) >= 1
        /\ trajectoryPoints[1] = Point(0, jin.lat, jin.lon)
        /\ StrictlyIncreasingAges(trajectoryPoints)

\* an anchored build of four points or more, some failed and some reconstructed
C9_Witness ==
    /\ jpc = "built"
    /\ anchor.found
    /\ Len(trajectoryPoints) >= 4
    /\ \E i, j \in 2..Len(trajectoryPoints) :
          IsFallback(trajectoryPoints[i]) /\ ~IsFallback(trajectoryPoints[j])

\* the later point of a consecutive pair lies beyond the budget of
\* 3 degrees per Ma on either axis
JumpExceeds(p, q) ==
    \/ Abs(q.lat - p.lat) > maxJumpPerMa * 10 * (q.age - p.age)
    \/ Abs(q.lon - p.lon) > maxJumpPerMa * 10 * (q.age - p.age)

JumpPairs(pts) == {i \in 2..Len(pts) : JumpExceeds(pts[i - 1], pts[i])}
Flagged(pts) == {i \in 1..Len(pts) : pts[i].isEndPoint}

Retained(pts) ==
    IF pts = <<>> THEN <<>>
    ELSE <<pts[1]>> \o SelectSeq(Tail(pts), LAMBDA p : ~OutOfRange(p))

Unflagged(pts) == [i \in DOMAIN pts |-> [pts[i] EXCEPT !.isEndPoint = FALSE]]

\* C11: filterInvalidTrajectoryPoints returns its input, in order, without the
\* points after the first that are out of range; the first point is kept
\* whatever its coordinates and a point beyond the budget is flagged, not
\* removed.
C11_ValidationKeepsData ==
    [][FilterTrajectory =>
         /\ Unflagged(trajectoryPoints') = Unflagged(Retained(trajectoryPoints))
         /\ Len(trajectoryPoints') >= 1
         /\ trajectoryPoints'[1] = trajectoryPoints[1]]_vars

\* a filtered trajectory that lost an out-of-range point, kept an out-of-range
\* first point and kept a flagged one
C11_Witness ==
    /\ jpc = "filtered"
    /\ Len(trajectoryPoints) >= 3
    /\ Len(trajectoryPoints) < Len(results) + 1
    /\ OutOfRange(trajectoryPoints[1])
    /\ Flagged(trajectoryPoints) # {}

\* the straight-line distance in (lat, lon) between two points exceeds
\* 3 degrees per Ma times their age gap (compared through the squares)
DisplacementExceeds(p, q) ==
    (q.lat - p.lat) * (q.lat - p.lat) + (q.lon - p.lon) * (q.lon - p.lon)
        > (maxJumpPerMa * 10 * (q.age - p.age)) * (maxJumpPerMa * 10 * (q.age - p.age))

RECURSIVE Flatten(_)
Flatten(segs) == IF segs = <<>> THEN <<>> ELSE Head(segs) \o Flatten(Tail(segs))

\* two consecutive vertices of the sequence more than 180 degrees apart
HasLongEdge(seq) == \E i \in 1..(Len(seq) - 1) : Abs(seq[i + 1].lon - seq[i].lon) > 180

\* C12: no sub-ring returned by splitAtDateLine has an edge longer than 180
\* degrees of longitude, a ring with such an edge (179 next to -179) comes back
\* in two sub-rings or more, and the sub-rings concatenated are the input.
C12_DateLineSplit ==
    gpc = "split_done" =>
        /\ \A k \in DOMAIN segments : ~HasLongEdge(segments[k])
        /\ HasLongEdge(ring) => Len(segments) >= 2
        /\ Flatten(segments) = ring

\* a ring with 179 next to -179, returned in three sub-rings
C12_Witness ==
    /\ gpc = "split_done"
    /\ \E i \in 1..(Len(ring) - 1) : ring[i].lon = 179 /\ ring[i + 1].lon = -179
    /\ Len(segments) = 3

\* twice the signed area of the triangle a, b, c
Cross(a, b, c) == (b.lon - a.lon) * (c.lat - a.lat) - (b.lat - a.lat) * (c.lon - a.lon)

\* the point lies on the closed segment a-b
OnSegment(pt, a, b) ==
    /\ Cross(a, b, pt) = 0
    /\ Min(a.lon, b.lon) <= pt.lon /\ pt.lon <= Max(a.lon, b.lon)
    /\ Min(a.lat, b.lat) <= pt.lat /\ pt.lat <= Max(a.lat, b.lat)

Next1(poly, i) == (i % Len(poly)) + 1

OnBoundary(pt, poly) == \E i \in DOMAIN poly : OnSegment(pt, poly[i], poly[Next1(poly, i)])

\* A ray from the point in the direction (RaySlope, 1): with RaySlope larger
\* than the grid it passes through no grid point, so each edge either crosses
\* it properly or does not meet it.
RaySlope == 100
RaySide(pt, q) == RaySlope * (q.lat - pt.lat) - (q.lon - pt.lon)
RayAlong(pt, q) == RaySlope * (q.lon - pt.lon) + (q.lat - pt.lat)
RayCrosses(pt, a, b) ==
    LET sa == RaySide(pt, a)
        sb == RaySide(pt, b)
    IN /\ sa * sb < 0
       /\ IF sa > sb
          THEN sa * RayAlong(pt, b) - sb * RayAlong(pt, a) > 0
          ELSE sa * RayAlong(pt, b) - sb * RayAlong(pt, a) < 0

Crossings(pt, poly) ==
    Cardinality({i \in DOMAIN poly : RayCrosses(pt, poly[i], poly[Next1(poly, i)])})

\* C13: for a test point off the ring's boundary, both functions answer true
\* exactly when a ray from the point crosses the ring an odd number of times;
\* (5,5) is inside and (15,15) outside the square (0,0),(10,0),(10,10),(0,10).
C13_EvenOddRule ==
    (gpc = "pip" /\ ~OnBoundary(gpoint, ring)) =>
        LET odd == IF Crossings(gpoint, ring) % 2 = 1 THEN "true" ELSE "false" IN
        /\ inside.py \in {"none", odd}
        /\ inside.js \in {"none", odd}

\* both functions have answered "true" for (5,5) in the square of the claim
C13_Witness ==
    /\ gpc = "pip"
    /\ ring = <<Vertex(0, 0), Vertex(10, 0), Vertex(10, 10), Vertex(0, 10)>>
    /\ gpoint = Vertex(5, 5)
    /\ inside = [py |-> "true", js |-> "true"]

(***************************************************************************)
(* Properties of findAnchorPoint (SpecAnchor)                              *)
(***************************************************************************)
AnchorReturned == apc \in {"returned", "used"} /\ aret # Null

\* C14 as claimed: anchor + offset is the original point exactly.
C14_OffsetRoundTripExact ==
    AnchorReturned =>
        /\ FlAdd(aret.anchorLat, aret.offsetLat) = ain.lat
        /\ FlAdd(aret.anchorLon, aret.offsetLon) = ain.lon

\* C14 as amended: anchor + offset is the original point up to the rounding
\* of the subtraction (one unit in the last place of the offset), and exactly
\* so whenever original - anchor is representable; clamped probes included.
C14_OffsetRoundTrip ==
    AnchorReturned =>
        /\ Abs(FlAdd(aret.anchorLat, aret.offsetLat) - ain.lat)
              <= Ulp(Abs(ain.lat - aret.anchorLat))
        /\ Abs(FlAdd(aret.anchorLon, aret.offsetLon) - ain.lon)
              <= Ulp(Abs(ain.lon - aret.anchorLon))
        /\ Fl(ain.lat - aret.anchorLat) = ain.lat - aret.anchorLat
              => aret.anchorLat + aret.offsetLat = ain.lat
        /\ Fl(ain.lon - aret.anchorLon) = ain.lon - aret.anchorLon
              => aret.anchorLon + aret.offsetLon = ain.lon

\* an anchor whose probe latitude was clamped to 85 degrees
C14_Witness ==
    /\ AnchorReturned
    /\ aret.anchorLat = 85 * Deg
    /\ best.dist = 20
    /\ ain.lat + 20 * Deg > 85 * Deg
    /\ aret.offsetLat = 0 - Deg

\* successful probes seen so far that moved by more than 0.5 degrees
Qualifying == {r \in aseen : r.movement2 > MovedThreshold2}
Strong(b) == b # Null /\ b.movement2 > StrongThreshold2

\* C15: the radii are visited one after the other, a radius is evaluated only
\* once its 8 probes have settled, the search goes on to the next radius only
\* while the best movement is not above 2 degrees and ends at the first
\* radius where it is, and the anchor returned is a probe of largest movement
\* among the successful probes of the visited radii, if one moved by more
\* than 0.5 degrees; otherwise nothing is returned.
C15_AnchorSelection ==
    /\ [][/\ aradius' # aradius =>
               /\ aradius' = aradius + 1
               /\ \A j \in DOMAIN aprobes : aprobes[j] # PendingProbe
               /\ ~Strong(best')
          /\ (best' # best \/ (apc = "probing" /\ apc' = "returned")) =>
               \A j \in DOMAIN aprobes : aprobes[j] # PendingProbe
          /\ (apc = "probing" /\ apc' = "returned") =>
               (Strong(best') \/ aradius = Len(searchDistances))
          /\ (apc = "probing" /\ Strong(best')) => apc' = "returned"]_vars
    /\ []((apc \in {"returned", "used"} /\ aradius >= 1) =>
            IF Qualifying = {} THEN aret = Null
            ELSE /\ aret # Null
                 /\ \E r \in Qualifying :
                      /\ \A q \in Qualifying : q.movement2 <= r.movement2
                      /\ aret.anchorLat = r.lat
                      /\ aret.anchorLon = r.lon)

\* the search stopped early, at the fourth radius, with a weaker qualifying
\* probe seen at an earlier radius
C15_Witness ==
    /\ apc = "returned"
    /\ aradius = 4
    /\ Cardinality(Qualifying) = 2
    /\ \E r \in Qualifying : r.dist = 1
    /\ aret.anchorLat = best.lat /\ best.dist = 5

\* the probes of largest movement among the qualifying probes seen
TopMovers == {r \in Qualifying : \A s \in Qualifying : s.movement2 <= r.movement2}

\* the position in searchAngles of the probe that gave the result r
AngleIndex(r) ==
    LET js == {j \in 1..Len(searchAngles) :
                 testPoint(ain.lat, ain.lon, r.dist, searchAngles[j]) =
                     [lat |-> r.lat, lon |-> r.lon]}
    IN CHOOSE j \in js : \A i \in js : j <= i

\* C27: when several qualifying probes share the largest movement, the anchor
\* returned is the one of the smallest radius, and among the probes of that
\* radius the first in the order of the search angles, whatever the order in
\* which the probes of a radius settled.
C27_AnchorTieBreak ==
    AnchorReturned =>
        /\ best \in TopMovers
        /\ aret.anchorLat = best.lat /\ aret.anchorLon = best.lon
        /\ \A r \in TopMovers :
              \/ r.dist > best.dist
              \/ r.dist = best.dist /\ AngleIndex(r) >= AngleIndex(best)

\* an anchor returned after a tie across radii and within the last radius
C27_Witness ==
    /\ AnchorReturned
    /\ \E r \in TopMovers : r.dist > best.dist
    /\ \E r, s \in TopMovers : r # s /\ r.dist = s.dist /\ r.dist > best.dist

\* C16: when the original point's probe moved by more than 0.5 degrees,
\* findAnchorPoint returns null without issuing a radial probe, and the
\* trajectory is built from the original coordinates with no offset.
C16_MovingPointNoAnchor ==
    /\ [][\A answer \in Displacements :
            (Movement2(answer) > MovedThreshold2 /\ OriginalProbed(answer)) =>
                (aret' = Null /\ apc' = "returned" /\ aradius' = 0 /\ aprobes' = <<>>)]_vars
    /\ []((apc = "used" /\ aradius = 0) =>
            arecon = [lat |-> ain.lat, lon |-> ain.lon, offsetLat |-> 0, offsetLon |-> 0])

C16_Witness ==
    /\ apc = "used"
    /\ aradius = 0
    /\ aret = Null
    /\ arecon.lat = ain.lat

\* C17: when all radii were probed and none qualified, findAnchorPoint returns
\* something other than the null it returns for a point that needs no anchor.
C17_NoAnchorFoundExplicit ==
    (apc \in {"returned", "used"} /\ aradius = Len(searchDistances) /\ best = Null)
        => aret # Null

(***************************************************************************)
(* Properties of the batch of queries (SpecJourney)                        *)
(***************************************************************************)
Ages == AgeList(StepFor(jin.maxAge), jin.maxAge)

\* C18: while a query of the batch is unresolved the trajectory holds the
\* age-0 point only; whatever queries fail, the build ends with one point per
\* age of the step sequence, the point of a failed age being the input
\* coordinates.
C18_JoinAllDegradesGracefully ==
    /\ [](jpc = "batch" => trajectoryPoints = <<Point(0, jin.lat, jin.lon)>>)
    /\ [][/\ (jpc = "batch" /\ trajectoryPoints' # trajectoryPoints) =>
               \A i \in DOMAIN results : results[i] # Pending
          /\ \A i \in DOMAIN results :
               QuerySettles(i, FALSE, [lat |-> 0, lon |-> 0]) =>
                   results'[i] = Point(Ages[i], jin.lat, jin.lon)]_vars
    /\ [](jpc = "built" =>
            /\ Len(trajectoryPoints) = 1 + Len(Ages)
            /\ \A i \in DOMAIN Ages :
                 /\ trajectoryPoints[i + 1].age = Ages[i]
                 /\ trajectoryPoints[i + 1] = results[i])

\* a build of four ages in which every query but one failed
C18_Witness ==
    /\ jpc = "built"
    /\ Len(results) = 4
    /\ Cardinality({i \in DOMAIN results : IsFallback(results[i])}) = 3
    /\ ~IsFallback(trajectoryPoints[3])

\* C19: the point recorded for a failed query differs from every point a
\* successful query could have produced for that age.
C19_FallbackMarked ==
    [][\A i \in DOMAIN results :
         QuerySettles(i, FALSE, [lat |-> 0, lon |-> 0]) =>
            \A recon \in OriginPoints :
                results'[i] # QueryResult(Ages[i], jin.lat, jin.lon, anchor, TRUE, recon)]_vars

\* C29: with an anchor, every query of the batch is issued for the anchor's
\* coordinates, every successful query contributes the origin's answer plus
\* the anchor's offset, and the anchor, hence the offset, is set once per
\* build, before the batch, and is the same for every age.
C29_AnchoredReconstruction ==
    /\ []((anchor.found /\ jpc # "anchor") =>
             /\ Len(queries) = Len(Ages)
             /\ \A i \in DOMAIN queries :
                   queries[i] = [age |-> Ages[i], lat |-> anchor.anchorLat,
                                 lon |-> anchor.anchorLon])
    /\ [][\A i \in DOMAIN results : \A recon \in OriginPoints :
             (anchor.found /\ QuerySettles(i, TRUE, recon)) =>
                 results'[i] = Point(Ages[i], recon.lat + anchor.offsetLat,
                                     recon.lon + anchor.offsetLon)]_vars
    /\ [][anchor' # anchor => (jpc = "anchor" /\ jpc' = "batch")]_vars

\* an anchored build in which two ages were reconstructed: both points are
\* the origin's answers moved by the same non-zero offset
C29_Witness ==
    /\ jpc = "built"
    /\ anchor.found
    /\ anchor.offsetLat # 0
    /\ \E i, j \in DOMAIN results :
          /\ i # j
          /\ \E ri, rj \in OriginPoints :
                /\ ri # rj
                /\ results[i] = Point(Ages[i], ri.lat + anchor.offsetLat,
                                      ri.lon + anchor.offsetLon)
                /\ results[j] = Point(Ages[j], rj.lat + anchor.offsetLat,
                                      rj.lon + anchor.offsetLon)
                /\ ~IsFallback(results[i])
                /\ ~IsFallback(results[j])

(***************************************************************************)
(* Properties of the bulk downloader (SpecBulk)                            *)
(***************************************************************************)
\* C20: no worker fetches or writes a url whose cache file exists at that
\* moment, and no url is fetched from the origin twice in a run.
C20_BulkSkipsCached ==
    /\ [][\A t \in Threads :
            /\ (\E ok \in BOOLEAN : BulkFetch(t, ok)) => bthreads[t].url \notin bcached
            /\ BulkWrite(t) => bthreads[t].url \notin bcached]_vars
    /\ [](\A u \in BulkUrls : bfetches[u] <= 1)

InQueue(u) == \E n \in DOMAIN bqueue : bqueue[n] = u

\* C21: in a run that is not interrupted, under fair scheduling, every url
\* submitted to the executor (every url not cached at the scan) is eventually
\* taken by a worker, that is download_and_cache is invoked for it, and main
\* reaches the final summary, which it never does with a call still queued.
C21_BulkPrefetchLiveness ==
    /\ \A u \in BulkUrls : (bpc = "running" /\ InQueue(u)) ~> (~InQueue(u) \/ bintr)
    /\ (bpc = "running") ~> (bpc = "summary" \/ bintr)
    /\ [](bpc = "summary" => bqueue = <<>>)

\* an uninterrupted run at its summary after downloads and a failure
C21_Witness ==
    /\ bpc = "summary"
    /\ ~bintr
    /\ bdownloaded >= 2
    /\ bfailed >= 1
    /\ \A u \in BulkUrls : bfetches[u] >= 1

\* C22: after a KeyboardInterrupt no queued call is begun, and the summary's
\* downloaded count is the number of cache entries the run wrote.
C22_CancellationStopsQueue ==
    /\ [][bintr => \A t \in Threads : ~BulkTake(t)]_vars
    /\ []((bintr /\ bpc \in {"summary", "exited"}) => bdownloaded = Cardinality(bwritten))

\* C25: runs that end with different outcomes (everything cached, partial
\* after an interrupt, failed downloads) never end with the same exit status.
C25_ExitStatusDistinguishes ==
    \A o1, o2 \in Outcomes : o1 # o2 => bexits[o1] \cap bexits[o2] = {}

\* origin requests the worker threads of the bulk downloader have in flight
BulkInFlight == Cardinality({t \in Threads : bthreads[t].pc = "fetching"})

\* C23: the origin requests in flight never exceed the pool size: args.threads
\* for the bulk downloader, one for the proxy, however many requests the front
\* end has outstanding.
C23_BoundedOriginConcurrency ==
    /\ BulkInFlight <= BulkThreads
    /\ porigin <= 1
    /\ porigin + BulkInFlight <= BulkThreads

\* the proxy is fetching for one request of a full batch that is still unanswered
C23_Witness ==
    /\ porigin = 1
    /\ pserving.pc = "origin"
    /\ Cardinality(fanout) = MaxFanOut

(***************************************************************************)
(* Properties of the single functions (SpecSteps, SpecPolar, SpecOffline)  *)
(***************************************************************************)
\* C24: on the cache download_gplates_cache leaves after a run without
\* failures, every request of a trajectory build for a preset coordinate, a
\* rotation model and a maxAge within the model's limit finds its cache file.
C24_OfflineCoverage == fout.fn = "build" => fout.missing = {}

\* C28: the latitude of every radial probe of findAnchorPoint and of every
\* coordinate of generate_grid_coordinates lies in [-85, 85], for any original
\* latitude from -90 to 90, any radius and angle, any grid step.
C28_PolarClamp ==
    /\ fout.fn = "testPoint" =>
          (fout.point.lat >= 0 - 85 * Deg /\ fout.point.lat <= 85 * Deg)
    /\ fout.fn = "grid" =>
          \A n \in DOMAIN fout.coords :
              fout.coords[n][1] >= -85 /\ fout.coords[n][1] <= 85

\* the probe 20 degrees north of latitude 80, clamped to 85
C28_Witness ==
    /\ fout.fn = "testPoint"
    /\ fin.lat = 80 * Deg
    /\ searchDistances[fin.k] = 20
    /\ searchAngles[fin.j] = 0
    /\ fout.point.lat = 85 * Deg

\* C30: the step is 5 below 20, 10 from 20 up to 99 and 20 from 100 on, so it
\* never decreases as maxAge grows; the ages queried are exactly the
\* positive multiples of the step up to maxAge, floor(maxAge/step) of them,
\* at most 50 for maxAge up to 1000.
C30_StepAndQueryBound ==
    fout.fn = "ages" =>
        LET m == fin.maxAge IN
        /\ (m < 20 => fout.step = 5)
        /\ (m >= 20 /\ m < 100 => fout.step = 10)
        /\ (m >= 100 => fout.step = 20)
        /\ \A m2 \in 0..m : StepFor(m2) <= fout.step
        /\ {fout.ages[i] : i \in DOMAIN fout.ages}
              = {a \in 1..m : a % fout.step = 0}
        /\ \A i \in DOMAIN fout.ages : fout.ages[i] = i * fout.step
        /\ Len(fout.ages) = m \div fout.step
        /\ (m <= 1000 => Len(fout.ages) <= 50)

\* the ages of maxAge 1000: 50 queries, 20 Ma apart
C30_Witness ==
    /\ fout.fn = "ages"
    /\ fin.maxAge = 1000
    /\ fout.step = 20
    /\ Len(fout.ages) = 50


(***************************************************************************)
(* Properties of the diagnostic's containment test (SpecAny)               *)
(***************************************************************************)
\* C31: point_in_any_polygon returns true iff some polygon of the list with
\* 3 or more vertices contains the point according to point_in_polygon;
\* polygons of fewer than 3 vertices, the empty one included, are skipped
\* without error, and the empty list gives false.
C31_AnyPolygon ==
    fout.fn = "any" =>
        /\ fout.result \in {"true", "false"}
        /\ (fout.result = "true") <=>
              \E i \in DOMAIN fin.polygons :
                  /\ Len(fin.polygons[i]) >= 3
                  /\ point_in_polygon(fin.point.lon, fin.point.lat, fin.polygons[i]) = "true"
        /\ fin.polygons = <<>> => fout.result = "false"

\* a short polygon and one that does not contain the point skipped, then true
C31_Witness ==
    /\ fout.fn = "any"
    /\ fout.result = "true"
    /\ Len(fin.polygons) = 2
    /\ Len(fin.polygons[1]) < 3
    /\ Len(fin.polygons[2]) = 3


(***************************************************************************)
(* Properties of the session (SpecSession)                                 *)
(***************************************************************************)
Quiescent == \A b \in 1..MaxBuilds : ~InFlight(b)

\* the point was computed for the specimen sp
PointOf(pt, sp) ==
    /\ pt.lon = sp.longitude
    /\ pt.lat \in sp.latitude..(sp.latitude + sp.fad_ma)

\* C32: when a second startJourney was issued while the build of the first
\* was still awaiting, then once every callback has run trajectoryPoints
\* holds only points of the second request, its ages strictly increase and
\* it has a single point of age 0.
C32_RestartOwnsTrajectory ==
    (overlap = "restart" /\ Quiescent /\ journeyData # Null) =>
        /\ \A i \in DOMAIN trajectoryPoints : PointOf(trajectoryPoints[i], journeyData)
        /\ \A i \in 1..(Len(trajectoryPoints) - 1) :
              trajectoryPoints[i].age < trajectoryPoints[i + 1].age
        /\ Cardinality({i \in DOMAIN trajectoryPoints : trajectoryPoints[i].age = 0}) = 1

\* without a call made during a build, the trajectory is that of journeyData
SequentialOwnsTrajectory ==
    (overlap = "none" /\ Quiescent /\ journeyData # Null) =>
        /\ \A i \in DOMAIN trajectoryPoints : PointOf(trajectoryPoints[i], journeyData)
        /\ \A i \in 1..(Len(trajectoryPoints) - 1) :
              trajectoryPoints[i].age < trajectoryPoints[i + 1].age
        /\ Cardinality({i \in DOMAIN trajectoryPoints : trajectoryPoints[i].age = 0}) = 1

\* C33: when stopJourney or resetView was called while a build was in
\* flight, then once every callback of the build has run trajectoryPoints is
\* empty and isPlaying is false, until the next startJourney.
C33_StopDiscardsSession ==
    (overlap = "stop" /\ Quiescent) => (trajectoryPoints = <<>> /\ ~isPlaying)


(***************************************************************************)
(* Properties of the validator applied twice (SpecFilter)                  *)
(***************************************************************************)
\* C34: filterInvalidTrajectoryPoints applied to its own output changes
\* neither the points retained nor the points flagged.
C34_ValidationIdempotent ==
    (fout.fn = "filter" /\ fout.passes = 2) => fout.pts = fout.first

\* a second pass over a trajectory from which the first pass removed a point
\* and in which it flagged one
C34_Witness ==
    /\ fout.fn = "filter"
    /\ fout.passes = 2
    /\ Len(fout.first) < Len(fin.pts)
    /\ \E i \in DOMAIN fout.first : fout.first[i].isEndPoint


(***************************************************************************)
(* Properties of the two position lookups (SpecLookup)                     *)
(***************************************************************************)
EqFrac(a, b) == a[1] * b[2] = b[1] * a[2]

\* C35: for a validated trajectory with strictly increasing ages and an age
\* >= 0, getReconstructedPosition and getTrajectoryPosition return the same
\* latitude and longitude, also at and after a point flagged as end of
\* trajectory.
C35_LookupsAgree ==
    (fout.fn = "lookup" /\ fout.recon # NoPos /\ fout.traj # NoPos) =>
        /\ EqFrac(fout.recon.lat, fout.traj.lat)
        /\ EqFrac(fout.recon.lon, fout.traj.lon)

\* the lookups agree on a trajectory without a step of more than 30 degrees
LookupsAgreeWithoutJump ==
    (/\ fout.fn = "lookup" /\ fout.recon # NoPos /\ fout.traj # NoPos
     /\ \A i \in 1..(Len(fin.pts) - 1) :
           (fin.pts[i + 1].lat - fin.pts[i].lat) * (fin.pts[i + 1].lat - fin.pts[i].lat) +
           (fin.pts[i + 1].lon - fin.pts[i].lon) * (fin.pts[i + 1].lon - fin.pts[i].lon)
               <= 300 * 300) =>
        /\ EqFrac(fout.recon.lat, fout.traj.lat)
        /\ EqFrac(fout.recon.lon, fout.traj.lon)


(***************************************************************************)
(* Properties of the coastlines and of the animation (SpecCoast)           *)
(***************************************************************************)
\* C36: in every reachable state, whatever the order in which the coastline
\* fetches of drawContinents2D, loadCoastlinesForAge and
\* updateContinentPositions3D return, lastCoastlinesAge2D = a >= 0 implies
\* that currentCoastlines is the coastline set fetched for age a.
C36_CoastlineAgeConsistent ==
    lastCoastlinesAge2D >= 0 => currentCoastlines = Coast(lastCoastlinesAge2D)

\* the same with the continuation of updateContinentPositions3D left aside:
\* the writers that set lastCoastlinesAge2D set both globals together
CoastlinePairWrittenTogether ==
    [][(lastCoastlinesAge2D' >= 0 /\ lastCoastlinesAge2D' # lastCoastlinesAge2D) =>
          currentCoastlines' = Coast(lastCoastlinesAge2D')]_vars


\* the animation has reached progress 1 and stopped
Finished == journeyData # Null /\ currentProgress = ProgressScale /\ ~isPlaying

\* C37: when the animation reaches progress 1 and stops, the 3D scene
\* eventually holds the coastlines of the final age rounded to a multiple of
\* 10, also when a coastline update was in flight at the last animated frame
\* or an earlier fetch for that age failed (unless the journey is stopped or
\* restarted first).
C37_FinalCoastlinesShown ==
    Finished ~> (continentsGroup = Coast(Round10(currentAge)) \/ ~Finished)


\* C38: 0 <= currentProgress <= 1 and 0 <= currentAge <= the journey's maxAge
\* in every state; within one journey (no startJourney, no resetView)
\* currentProgress never decreases; a step taken while the journey is paused
\* or not playing, a frame in particular, leaves it unchanged; isPlaying is
\* false after the step, always a frame, in which currentProgress reaches 1.
C38_ProgressInvariant ==
    /\ [](currentProgress \in 0..ProgressScale)
    /\ [](currentAge >= 0)
    /\ [](journeyData # Null => currentAge <= ProgressScale * journeyData.fad_ma)
    /\ [][((journeyData' = journeyData /\ builds' = builds) =>
              (currentProgress' >= currentProgress))
           /\ ((journeyData' = journeyData /\ builds' = builds
                  /\ (isPaused \/ ~isPlaying \/ journeyData = Null)) =>
                 (currentProgress' = currentProgress))
           /\ ((currentProgress < ProgressScale /\ currentProgress' = ProgressScale) =>
                 ~isPlaying')]_vars

\* a journey that has run to progress 1 and stopped at its maxAge
C38_Witness ==
    /\ Finished
    /\ currentAge = ProgressScale * journeyData.fad_ma
    /\ \A b \in 1..MaxBuilds : builds[b].pc = "done"


(***************************************************************************)
(* Properties of the bulk downloader's counters (SpecBulk)                 *)
(***************************************************************************)
\* C39: at the final summary of an uninterrupted run of main,
\* cached + downloaded + failed is the number of generated URLs, so that a
\* run without a failed download reports a cache status of 100 percent.
C39_BulkAccounting ==
    (bpc = "summary" /\ ~bintr) =>
        /\ bcount + bdownloaded + bfailed = Len(BulkUrlList)
        /\ bfailed = 0 => bcount + bdownloaded = Len(BulkUrlList)

====
